---------------------------- MODULE Spec2Model ----------------------------
(***************************************************************************)
(* A model of tools/ais-parser.js: the ingestion of one record file        *)
(* (processFile), the post-filter and the distance histogram of main(),    *)
(* and the beam-width analysis (calculateBeamWidth).                       *)
(*                                                                         *)
(* Units.  Latitudes and longitudes are integers in microdegrees, on a     *)
(* grid anchored at the station: (MY_LAT, MY_LON) denotes the station      *)
(* itself.  Distances are whole nautical miles and bearings are tenths of  *)
(* a degree (Deg(d) is d degrees).  calculateDistance and calculateBearing *)
(* are the source's formulas evaluated at the points the model uses, each  *)
(* value rounded to that unit (all of them lie within 0.0001 of it).       *)
(* An absent value (JavaScript's undefined) is the empty sequence and a    *)
(* present value x is <<x>>.                                               *)
(***************************************************************************)
EXTENDS Integers, Sequences, FiniteSets, TLC

VARIABLES
    pc,                 \* where the run is
    debugMode,          \* --debug
    excludeMMSIs,       \* --exclude=
    minDistance,        \* --min-distance=
    maxDistance,        \* --max-distance=
    lines,              \* the lines of the input file read so far
    stats,              \* processFile: per-date aggregates of the file
    excludedCount,      \* processFile: records dropped for their mmsi
    console,            \* what processFile has written to the console
    allDistances,       \* global distance sequence
    bearingCounts,      \* global 15-degree sector counts
    allBearings,        \* global bearing sequence
    debugDistances,     \* debug side collection
    allPositions,       \* global position sequence
    filteredDistances,  \* main: the filtered view
    filteredBearings,
    filteredPositions,
    distribution,       \* main: result of calculateDistribution
    beamStats,          \* main: result of calculateBeamWidth
    args,               \* process.argv.slice(2)
    exitCode,           \* the exit status once the process has ended
    fsLog,              \* the file-system calls made so far
    todo,               \* processDirectory: the entries still to visit
    current,            \* the file processFile is reading
    allStats,           \* processDirectory: the merged per-date aggregates
    processed           \* processDirectory: the files read and merged so far

vars == <<pc, debugMode, excludeMMSIs, minDistance, maxDistance, lines, stats,
          excludedCount, console, allDistances, bearingCounts, allBearings,
          debugDistances, allPositions, filteredDistances, filteredBearings,
          filteredPositions, distribution, beamStats, args, exitCode, fsLog,
          todo, current, allStats, processed>>

runVars == <<args, exitCode, fsLog, todo, current, allStats, processed>>

ingestVars == <<lines, stats, excludedCount, console, allDistances,
                bearingCounts, allBearings, debugDistances, allPositions>>

argVars == <<debugMode, excludeMMSIs, minDistance, maxDistance>>

viewVars == <<filteredDistances, filteredBearings, filteredPositions>>

-----------------------------------------------------------------------------
(* Bounds of the model *)

\* most lines of the input file of Spec
MaxLines == 3

\* most lines of the input file whose ingestion SpecStats starts from
MaxSamples == 3

\* most bearings of an enumerated argument of calculateBeamWidth in SpecBeam
MaxBearings == 3

-----------------------------------------------------------------------------
(* Program constants *)

MY_LAT == 51500930

MY_LON == -206711

MAX_REASONABLE_DISTANCE == 100

Undefined == << >>

Some(x) == <<x>>

Deg(d) == 10 * d

Abs(x) == IF x < 0 THEN -x ELSE x

Min(a, b) == IF a < b THEN a ELSE b

Max(a, b) == IF a > b THEN a ELSE b

-----------------------------------------------------------------------------
(* Geodesy: the station-relative values at the points of the model *)

calculateDistance(lat1, lon1, lat2, lon2) ==
    CASE <<lat2, lon2>> = <<MY_LAT, MY_LON>>      -> 0
      [] <<lat2, lon2>> = <<51584207, -206711>>   -> 5
      [] <<lat2, lon2>> = <<51583890, -218392>>   -> 5
      [] <<lat2, lon2>> = <<51500245, 194620>>    -> 15
      [] <<lat2, lon2>> = <<51001267, -206711>>   -> 30
      [] <<lat2, lon2>> = <<51489975, -1811792>>  -> 60
      [] <<lat2, lon2>> = <<52496368, -63657>>    -> 60
      [] <<lat2, lon2>> = <<53166473, -206711>>   -> 100
      [] <<lat2, lon2>> = <<53999245, -206711>>   -> 150

calculateBearing(lat1, lon1, lat2, lon2) ==
    CASE <<lat2, lon2>> = <<MY_LAT, MY_LON>>      -> Deg(0)
      [] <<lat2, lon2>> = <<51584207, -206711>>   -> Deg(0)
      [] <<lat2, lon2>> = <<51583890, -218392>>   -> Deg(355)
      [] <<lat2, lon2>> = <<51500245, 194620>>    -> Deg(90)
      [] <<lat2, lon2>> = <<51001267, -206711>>   -> Deg(180)
      [] <<lat2, lon2>> = <<51489975, -1811792>>  -> Deg(270)
      [] <<lat2, lon2>> = <<52496368, -63657>>    -> Deg(5)
      [] <<lat2, lon2>> = <<53166473, -206711>>   -> Deg(0)
      [] <<lat2, lon2>> = <<53999245, -206711>>   -> Deg(0)

\* timestamp.substring(8, 10) parsed as a decimal number
getHour(timestamp) == 10 * timestamp[9] + timestamp[10]

\* timestamp.substring(0, 8)
getDate(timestamp) == SubSeq(timestamp, 1, 8)

-----------------------------------------------------------------------------
(* Input records *)

\* "YYYYMMDDHHMMSS" as its fourteen digits
Stamp(day, h1, h2) == <<2, 0, 2, 4, 0, 1, 0, day, h1, h2, 0, 0, 0, 0>>

Station == [lat |-> MY_LAT,   lon |-> MY_LON]
N5      == [lat |-> 51584207, lon |-> -206711]
NNW5    == [lat |-> 51583890, lon |-> -218392]
E15     == [lat |-> 51500245, lon |-> 194620]
S30     == [lat |-> 51001267, lon |-> -206711]
W60     == [lat |-> 51489975, lon |-> -1811792]
NNE60   == [lat |-> 52496368, lon |-> -63657]
N100    == [lat |-> 53166473, lon |-> -206711]
N150    == [lat |-> 53999245, lon |-> -206711]
BadLat  == [lat |-> 91000000, lon |-> -206711]
BadLon  == [lat |-> 51584207, lon |-> -181000000]

\* a line holding {"topic": "ais/data", "timestamp": ts, "payload": {mmsi, lat, lon}}
Message(mmsi, p, ts) ==
    [parses |-> TRUE, topic |-> "ais/data", hasPayload |-> TRUE, mmsi |-> mmsi,
     hasLat |-> TRUE, hasLon |-> TRUE, lat |-> p.lat, lon |-> p.lon,
     hasTimestamp |-> TRUE, timestamp |-> ts]

\* a line that JSON.parse rejects
Garbage == [Message(0, Station, Stamp(1, 0, 0)) EXCEPT !.parses = FALSE]

\* the lines a file of Spec is made of
Records ==
    { Garbage,
      [Message(123, N5, Stamp(1, 0, 9)) EXCEPT !.topic = "ais/status"],
      [Message(456, N5, Stamp(1, 0, 9)) EXCEPT !.hasPayload = FALSE],
      [Message(123, N5, Stamp(1, 0, 9)) EXCEPT !.hasLat = FALSE],
      [Message(456, N5, Stamp(1, 0, 9)) EXCEPT !.hasLon = FALSE],
      [Message(456, N5, Stamp(1, 0, 9)) EXCEPT !.hasTimestamp = FALSE],
      Message(456, BadLat, Stamp(1, 0, 9)),
      Message(456, BadLon, Stamp(1, 0, 9)),
      Message(456, N150, Stamp(1, 0, 9)),
      Message(456, N100, Stamp(1, 0, 7)),
      Message(123, N5, Stamp(1, 0, 9)),
      Message(456, N5, Stamp(1, 0, 9)),
      Message(456, N5, Stamp(1, 1, 4)),
      Message(456, N5, Stamp(1, 2, 2)),
      Message(789, NNW5, Stamp(1, 1, 9)),
      Message(789, W60, Stamp(1, 0, 8)),
      Message(456, Station, Stamp(2, 2, 0)),
      Message(789, E15, Stamp(2, 0, 9)) }

\* the values --exclude= takes in the model
ExcludeSets == { {}, {123} }

-----------------------------------------------------------------------------
(* processFile: the body of the line loop *)

\* mutant: the ids are compared as values of different types and never match
IsExcludedNever(mmsi, excluded) == FALSE

\* excludeMMSIs.has(payload.mmsi)
IsExcluded(mmsi, excluded) == mmsi \in excluded

\* mutant: the topic and the payload are not looked at
IsRecognizedAlways(data) == TRUE

\* data.topic === 'ais/data' && data.payload
IsRecognized(data) == data.topic = "ais/data" /\ data.hasPayload

\* payload.lat !== undefined && payload.lon !== undefined
HasPosition(data) == data.hasLat /\ data.hasLon

\* Math.abs(payload.lat) > 90 || Math.abs(payload.lon) > 180
InvalidCoordinates(lat, lon) == Abs(lat) > 90 * 1000000 \/ Abs(lon) > 180 * 1000000

\* mutant: the ceiling is taken twice as wide
TooFarLax(distance) == distance > 2 * MAX_REASONABLE_DISTANCE

\* mutant: a record exactly at the ceiling is dropped too
TooFarInclusive(distance) == distance >= MAX_REASONABLE_DISTANCE

\* distance > MAX_REASONABLE_DISTANCE
TooFar(distance) == distance > MAX_REASONABLE_DISTANCE

\* mutant: the day starts after 8 o'clock
IsDayLate(hour) == hour > 8 /\ hour < 20

\* hour >= 8 && hour < 20
IsDay(hour) == hour >= 8 /\ hour < 20

\* Math.floor(bearing / 15) * 15
Sector(bearing) == (bearing \div Deg(15)) * Deg(15)

\* bearingCounts[bearingSector] = (bearingCounts[bearingSector] || 0) + 1
CountSector(counts, sector) ==
    [s \in DOMAIN counts \cup {sector} |->
        IF s = sector
            THEN (IF s \in DOMAIN counts THEN counts[s] ELSE 0) + 1
            ELSE counts[s]]

NewStat == [dayCount |-> 0, nightCount |-> 0, totalCount |-> 0,
            maxDistance |-> 0, maxDistanceMMSI |-> Undefined]

\* stats[date].totalCount++ and the day or night count
CountMessage(stat, hour) ==
    [stat EXCEPT !.totalCount = @ + 1,
                 !.dayCount = IF IsDay(hour) THEN @ + 1 ELSE @,
                 !.nightCount = IF IsDay(hour) THEN @ ELSE @ + 1]

\* mutant: a tie replaces the recorded mmsi
TrackMaxLast(stat, distance, mmsi) ==
    IF distance >= stat.maxDistance
        THEN [stat EXCEPT !.maxDistance = distance, !.maxDistanceMMSI = Some(mmsi)]
        ELSE stat

\* if (distance > stats[date].maxDistance) replace the maximum and its mmsi
TrackMax(stat, distance, mmsi) ==
    IF distance > stat.maxDistance
        THEN [stat EXCEPT !.maxDistance = distance, !.maxDistanceMMSI = Some(mmsi)]
        ELSE stat

\* the per-date update of an accepted message
UpdateStats(st, date, hour, distance, mmsi) ==
    LET old == IF date \in DOMAIN st THEN st[date] ELSE NewStat
        new == TrackMax(CountMessage(old, hour), distance, mmsi)
    IN  [d \in DOMAIN st \cup {date} |-> IF d = date THEN new ELSE st[d]]

\* the accumulators processFile reads and writes
Acc == [stats |-> stats, excludedCount |-> excludedCount, console |-> console,
        allDistances |-> allDistances, bearingCounts |-> bearingCounts,
        allBearings |-> allBearings, debugDistances |-> debugDistances,
        allPositions |-> allPositions]

EmptyAcc == [stats |-> << >>, excludedCount |-> 0, console |-> << >>,
             allDistances |-> << >>, bearingCounts |-> << >>,
             allBearings |-> << >>, debugDistances |-> << >>,
             allPositions |-> << >>]

\* mutant: the sector of an accepted message is not counted
AcceptWithoutSector(acc, data, distance) ==
    LET bearing == calculateBearing(MY_LAT, MY_LON, data.lat, data.lon)
        date    == getDate(data.timestamp)
        hour    == getHour(data.timestamp)
    IN  [acc EXCEPT
            !.allPositions = Append(@, [lat |-> data.lat, lon |-> data.lon,
                                        bearing |-> bearing, distance |-> distance,
                                        mmsi |-> data.mmsi]),
            !.allDistances = Append(@, distance),
            !.allBearings = Append(@, bearing),
            !.stats = UpdateStats(@, date, hour, distance, data.mmsi)]

\* an accepted message: lines 166-190
Accept(acc, data, distance) ==
    LET bearing == calculateBearing(MY_LAT, MY_LON, data.lat, data.lon)
        date    == getDate(data.timestamp)
        hour    == getHour(data.timestamp)
    IN  [acc EXCEPT
            !.allPositions = Append(@, [lat |-> data.lat, lon |-> data.lon,
                                        bearing |-> bearing, distance |-> distance,
                                        mmsi |-> data.mmsi]),
            !.allDistances = Append(@, distance),
            !.allBearings = Append(@, bearing),
            !.bearingCounts = CountSector(@, Sector(bearing)),
            !.stats = UpdateStats(@, date, hour, distance, data.mmsi)]

\* a message beyond the sanity ceiling: lines 152-164
Reject(acc, data, distance, debug) ==
    IF debug
        THEN [acc EXCEPT !.debugDistances = Append(@,
                [distance |-> distance,
                 bearing |-> calculateBearing(MY_LAT, MY_LON, data.lat, data.lon),
                 mmsi |-> data.mmsi, lat |-> data.lat, lon |-> data.lon,
                 timestamp |-> data.timestamp, raw |-> data])]
        ELSE acc

\* mutant: the handler also counts the line as an excluded record
CatchErrorCounting(acc) ==
    [acc EXCEPT !.console = Append(@, [msg |-> "error parsing line", n |-> 0]),
                !.excludedCount = @ + 1]

\* catch (e) { console.error(`Error parsing line: ${e.message}`) }: lines 193-195
CatchError(acc) ==
    [acc EXCEPT !.console = Append(@, [msg |-> "error parsing line", n |-> 0])]

\* the body of the loop over the lines, with its try/catch: lines 135-195
HandleLine(acc, data, debug, excluded) ==
    IF ~data.parses THEN CatchError(acc)
    ELSE IF ~IsRecognized(data) THEN acc
    ELSE IF IsExcluded(data.mmsi, excluded)
        THEN [acc EXCEPT !.excludedCount = @ + 1]
    ELSE IF ~HasPosition(data) THEN acc
    ELSE IF InvalidCoordinates(data.lat, data.lon)
        THEN IF debug
                THEN [acc EXCEPT !.console =
                        Append(@, [msg |-> "invalid coordinates", n |-> data.mmsi])]
                ELSE acc
    ELSE LET distance == calculateDistance(MY_LAT, MY_LON, data.lat, data.lon)
         IN  IF TooFar(distance) THEN Reject(acc, data, distance, debug)
             ELSE IF ~data.hasTimestamp
                 \* getDate(undefined) throws before anything is pushed
                 THEN CatchError(acc)
             ELSE Accept(acc, data, distance)

\* if (excludedCount > 0) console.log(...): line 198
ReportExcluded(acc) ==
    IF acc.excludedCount > 0
        THEN [acc EXCEPT !.console =
                Append(@, [msg |-> "excluded", n |-> acc.excludedCount])]
        ELSE acc

SetAcc(acc) ==
    /\ stats' = acc.stats
    /\ excludedCount' = acc.excludedCount
    /\ console' = acc.console
    /\ allDistances' = acc.allDistances
    /\ bearingCounts' = acc.bearingCounts
    /\ allBearings' = acc.allBearings
    /\ debugDistances' = acc.debugDistances
    /\ allPositions' = acc.allPositions

InitAcc(acc) ==
    /\ stats = acc.stats
    /\ excludedCount = acc.excludedCount
    /\ console = acc.console
    /\ allDistances = acc.allDistances
    /\ bearingCounts = acc.bearingCounts
    /\ allBearings = acc.allBearings
    /\ debugDistances = acc.debugDistances
    /\ allPositions = acc.allPositions

-----------------------------------------------------------------------------
(* Spec: main() reading one file *)

\* no directory is being traversed and the process has not ended
NoRun ==
    /\ args = << >>
    /\ exitCode = << >>
    /\ fsLog = << >>
    /\ todo = << >>
    /\ current = << >>
    /\ allStats = << >>
    /\ processed = << >>

NoView ==
    /\ filteredDistances = << >>
    /\ filteredBearings = << >>
    /\ filteredPositions = << >>
    /\ distribution = Undefined
    /\ beamStats = Undefined

Init ==
    /\ pc = "reading"
    /\ debugMode \in BOOLEAN
    /\ excludeMMSIs \in ExcludeSets
    /\ minDistance = 0
    /\ maxDistance = 0
    /\ lines = << >>
    /\ InitAcc(EmptyAcc)
    /\ NoView
    /\ NoRun

\* one iteration of for await (const line of rl)
ProcessLine(line) ==
    /\ pc = "reading"
    /\ Len(lines) < MaxLines
    /\ lines' = Append(lines, line)
    /\ SetAcc(HandleLine(Acc, line, debugMode, excludeMMSIs))
    /\ UNCHANGED runVars
    /\ UNCHANGED <<pc, argVars, viewVars, distribution, beamStats>>

\* the stream ends: the excluded total is reported and stats returned
EndOfFile ==
    /\ pc = "reading"
    /\ pc' = "read"
    /\ SetAcc(ReportExcluded(Acc))
    /\ UNCHANGED runVars
    /\ UNCHANGED <<lines, argVars, viewVars, distribution, beamStats>>

Next ==
    \/ \E line \in Records : ProcessLine(line)
    \/ EndOfFile

Spec == Init /\ [][Next]_vars

-----------------------------------------------------------------------------
(* Sorting, as Array.prototype.sort does it: SortSeq is a stable insertion  *)
(* sort by a strict order                                                   *)

\* s.sort((a, b) => a - b)
SortAsc(s) ==
    LET Before(a, b) == a < b IN SortSeq(s, Before)

\* combined.sort((a, b) => b.distance - a.distance)
SortByDistanceDesc(s) ==
    LET Before(a, b) == a.distance > b.distance IN SortSeq(s, Before)

RECURSIVE SeqSum(_)
SeqSum(s) == IF s = << >> THEN 0 ELSE Head(s) + SeqSum(Tail(s))

-----------------------------------------------------------------------------
(* main: the post-filter, lines 462-479 *)

\* mutant: the lower bound is exclusive
KeepMinStrict(d, min) == d > min

\* d >= minDistance
KeepMin(d, min) == d >= min

\* d <= maxDistance
KeepMax(d, max) == d <= max

\* distances.map((d, i) => (d >= minDistance ? i : -1)).filter((i) => i >= 0)
MinIndices(distances, min) ==
    LET Kept(i) == KeepMin(distances[i], min)
    IN  SelectSeq([i \in 1..Len(distances) |-> i], Kept)

\* distances.map((d, i) => (d <= maxDistance ? i : -1)).filter((i) => i >= 0)
MaxIndices(distances, max) ==
    LET Kept(i) == KeepMax(distances[i], max)
    IN  SelectSeq([i \in 1..Len(distances) |-> i], Kept)

\* indices.map((i) => sequence[i])
Pick(sequence, indices) == [k \in 1..Len(indices) |-> sequence[indices[k]]]

PickView(view, indices) ==
    [distances |-> Pick(view.distances, indices),
     bearings  |-> Pick(view.bearings, indices),
     positions |-> Pick(view.positions, indices)]

\* if (minDistance > 0) { ... }
FilterMin(view, min) ==
    IF min > 0
        THEN PickView(view, MinIndices(view.distances, min))
        ELSE view

\* if (maxDistance > 0) { ... }
FilterMax(view, max) ==
    IF max > 0
        THEN PickView(view, MaxIndices(view.distances, max))
        ELSE view

\* the filtered arrays are the global arrays themselves unless a filter ran
Aliased == ~(minDistance > 0) /\ ~(maxDistance > 0)

-----------------------------------------------------------------------------
(* calculateDistribution, lines 40-52 *)

\* Math.min(Math.floor((dist - min) / binSize), 9) with binSize = range / 10.
\* With range = 0 the quotient is 0/0 = NaN, which Math.floor and Math.min
\* pass on: the index is absent and bins[NaN]++ touches none of bins 0..9.
BinIndex(dist, min, range) ==
    IF range = 0 THEN Undefined ELSE Some(Min((10 * (dist - min)) \div range, 9))

\* the value returned for a non-empty array, computed on the sorted array;
\* binRanges are in tenths of a nautical mile
Distribution(sorted) ==
    LET min == sorted[1]
        max == sorted[Len(sorted)]
        range == max - min
    IN  [bins |-> [b \in 0..9 |->
                     Cardinality({ i \in DOMAIN sorted :
                                     BinIndex(sorted[i], min, range) = Some(b) })],
         binRanges |-> [b \in 0..9 |->
                          [min |-> 10 * min + b * range,
                           max |-> 10 * min + (b + 1) * range]],
         min |-> min, max |-> max, count |-> Len(sorted)]

\* the result, and the argument array as the in-place sort leaves it
calculateDistribution(distances) ==
    IF Len(distances) = 0
        THEN [result |-> Undefined, distances |-> distances]
        ELSE [result |-> Some(Distribution(SortAsc(distances))),
              distances |-> SortAsc(distances)]

-----------------------------------------------------------------------------
(* calculateBeamWidth, lines 54-114; a percentile is given in percent *)

\* mutant: the lower index is taken from the upper fraction (1 + percentile) / 2
startIdxFromUpper(percentile, totalCount) ==
    ((100 + percentile) * totalCount) \div 200

\* Math.floor(((1 - percentile) / 2) * totalCount).  In double arithmetic
\* (1 - 0.68) / 2 is 0.15999999999999998, and for the totalCount of the model
\* (up to 150) its product with totalCount falls below the integer 0.16 *
\* totalCount whenever that is one (totalCount a multiple of 25); for 0.95 and
\* 0.99 the double result is the exact one.
startIdx(percentile, totalCount) ==
    LET exact == ((100 - percentile) * totalCount) \div 200
    IN  IF percentile = 68 /\ totalCount % 25 = 0 THEN exact - 1 ELSE exact

\* Math.ceil(((1 + percentile) / 2) * totalCount) - 1.  (1 + 0.68) / 2 is
\* 0.8400000000000001 and its product exceeds the integer 0.84 * totalCount.
endIdx(percentile, totalCount) ==
    LET exact == ((100 + percentile) * totalCount + 199) \div 200 - 1
    IN  IF percentile = 68 /\ totalCount % 25 = 0 THEN exact + 1 ELSE exact

\* sortedBearings.map((b) => (b + offset) % 360).sort((a, b) => a - b)
Rotated(sortedBearings, offset) ==
    SortAsc([i \in DOMAIN sortedBearings |-> (sortedBearings[i] + offset) % Deg(360)])

\* maxBearing - minBearing > 180
Wraps(minBearing, maxBearing) == maxBearing - minBearing > Deg(180)

\* mutant: the widest rotation is kept
BetterWider(range, bestRange) == range > bestRange

\* range < bestRange
Better(range, bestRange) == range < bestRange

RECURSIVE RotationSearch(_, _, _, _, _)
\* the loop over offset = 0, 10, ..., 350 from the given offset on
RotationSearch(sortedBearings, s, e, offset, best) ==
    IF ~(offset < Deg(360)) THEN best
    ELSE LET adjusted == Rotated(sortedBearings, offset)
             adjMin == adjusted[s + 1]
             adjMax == adjusted[e + 1]
             range == adjMax - adjMin
         IN  IF Better(range, best.bestRange)
                 THEN RotationSearch(sortedBearings, s, e, offset + Deg(10),
                         [bestRange |-> range,
                          bestMin |-> (adjMin - offset + Deg(360)) % Deg(360),
                          bestMax |-> (adjMax - offset + Deg(360)) % Deg(360)])
                 ELSE RotationSearch(sortedBearings, s, e, offset + Deg(10), best)

\* maxBearing > minBearing ? maxBearing - minBearing : 360 - minBearing + maxBearing
BeamWidthOf(minBearing, maxBearing) ==
    IF maxBearing > minBearing
        THEN maxBearing - minBearing
        ELSE Deg(360) - minBearing + maxBearing

\* twice the centerBearing of line 84
CenterBearingTimes2(minBearing, maxBearing) ==
    IF maxBearing > minBearing
        THEN minBearing + maxBearing
        ELSE (minBearing + maxBearing + Deg(360)) % (2 * Deg(360))

findPercentileRange(sortedBearings, percentile) ==
    LET totalCount == Len(sortedBearings)
        s == startIdx(percentile, totalCount)
        e == endIdx(percentile, totalCount)
        rawMin == sortedBearings[s + 1]
        rawMax == sortedBearings[e + 1]
        best ==
            IF Wraps(rawMin, rawMax)
                THEN RotationSearch(sortedBearings, s, e, 0,
                        [bestRange |-> rawMax - rawMin,
                         bestMin |-> rawMin, bestMax |-> rawMax])
                ELSE [bestRange |-> rawMax - rawMin,
                      bestMin |-> rawMin, bestMax |-> rawMax]
    IN  [minBearing |-> best.bestMin, maxBearing |-> best.bestMax,
         beamWidth |-> BeamWidthOf(best.bestMin, best.bestMax),
         centerBearingTimes2 |-> CenterBearingTimes2(best.bestMin, best.bestMax),
         percentile |-> percentile]

\* Math.max(1, Math.floor(totalCount * 0.05))
top5PercentCount(totalCount) == Max(1, totalCount \div 20)

\* bearings.map((b, i) => ({ bearing: b, distance: distances[i] }))
Combined(bearings, distances) ==
    [i \in DOMAIN bearings |-> [bearing |-> bearings[i], distance |-> distances[i]]]

\* sortedByDistance.slice(0, top5PercentCount)
top5Percent(bearings, distances) ==
    SubSeq(SortByDistanceDesc(Combined(bearings, distances)), 1,
           top5PercentCount(Len(bearings)))

\* the value returned for a non-empty array.  meanBearing and concentration
\* (the circular mean) are not part of this record; avgDistance is the pair
\* <<sum of the distances, count>>
BeamWidth(bearings, distances) ==
    LET sortedBearings == SortAsc(bearings)
        top == top5Percent(bearings, distances)
        maxDistBearings == SortAsc([i \in DOMAIN top |-> top[i].bearing])
    IN  [totalCount |-> Len(bearings),
         percentile68 |-> findPercentileRange(sortedBearings, 68),
         percentile95 |-> findPercentileRange(sortedBearings, 95),
         percentile99 |-> findPercentileRange(sortedBearings, 99),
         maxDistance |->
            [count |-> Len(top),
             minBearing |-> maxDistBearings[1],
             maxBearing |-> maxDistBearings[Len(top)],
             spread |-> maxDistBearings[Len(top)] - maxDistBearings[1],
             bearings |-> maxDistBearings,
             avgDistance |-> <<SeqSum([i \in DOMAIN top |-> top[i].distance]),
                               Len(top)>>]]

calculateBeamWidth(bearings, distances) ==
    IF Len(bearings) = 0 THEN Undefined ELSE Some(BeamWidth(bearings, distances))

-----------------------------------------------------------------------------
(* SpecStats: main() from the end of the ingestion on, lines 462-585 *)

RECURSIVE FoldLines(_, _, _, _)
\* processFile over the first n lines of a file
FoldLines(file, n, debug, excluded) ==
    IF n = 0 THEN EmptyAcc
    ELSE HandleLine(FoldLines(file, n - 1, debug, excluded), file[n], debug, excluded)

SeqsUpTo(S, n) == UNION { [1..k -> S] : k \in 0..n }

\* the lines the files of SpecStats are made of: accepted messages
StatRecords ==
    { Message(456, p, Stamp(1, 0, 9)) : p \in {N5, NNW5, E15, S30, W60, NNE60} }

\* the file of the post-filter example: distances 5, 15, 30, 60
ExampleFile ==
    << Message(456, N5, Stamp(1, 0, 9)), Message(456, E15, Stamp(1, 0, 9)),
       Message(456, S30, Stamp(1, 0, 9)), Message(456, W60, Stamp(1, 0, 9)) >>

StatFiles == SeqsUpTo(StatRecords, MaxSamples) \cup {ExampleFile}

\* the values --min-distance= and --max-distance= take in the model
MinDistances == {0, 10, 15}

MaxDistances == {0, 30, 50}

InitStats ==
    /\ pc = "read"
    /\ debugMode = FALSE
    /\ excludeMMSIs = {}
    /\ minDistance \in MinDistances
    /\ maxDistance \in MaxDistances
    /\ lines \in StatFiles
    /\ InitAcc(ReportExcluded(FoldLines(lines, Len(lines), debugMode, excludeMMSIs)))
    /\ NoView
    /\ NoRun

\* lines 462-479
PostFilter ==
    /\ pc = "read"
    /\ pc' = "filtered"
    /\ LET view == FilterMax(FilterMin([distances |-> allDistances,
                                        bearings |-> allBearings,
                                        positions |-> allPositions],
                                       minDistance), maxDistance)
       IN  /\ filteredDistances' = view.distances
           /\ filteredBearings' = view.bearings
           /\ filteredPositions' = view.positions
    /\ UNCHANGED runVars
    /\ UNCHANGED <<argVars, ingestVars, distribution, beamStats>>

\* line 535: calculateDistribution(filteredDistances) sorts its argument,
\* which is allDistances itself when no filter ran
ComputeDistribution ==
    /\ pc = "filtered"
    /\ pc' = "distributed"
    /\ LET r == calculateDistribution(filteredDistances)
       IN  /\ distribution' = r.result
           /\ filteredDistances' = r.distances
           /\ allDistances' = IF Aliased THEN r.distances ELSE allDistances
    /\ UNCHANGED runVars
    /\ UNCHANGED <<argVars, lines, stats, excludedCount, console, bearingCounts,
                   allBearings, debugDistances, allPositions, filteredBearings,
                   filteredPositions, beamStats>>

RECURSIVE SectorCounts(_, _)
\* the sector counts of the first n bearings
SectorCounts(bearings, n) ==
    IF n = 0 THEN << >>
    ELSE CountSector(SectorCounts(bearings, n - 1), Sector(bearings[n]))

\* lines 552-557
RecountSectors ==
    /\ pc = "distributed"
    /\ pc' = "sectors"
    /\ bearingCounts' =
          IF minDistance > 0 /\ Len(filteredBearings) > 0
              THEN SectorCounts(filteredBearings, Len(filteredBearings))
              ELSE bearingCounts
    /\ UNCHANGED runVars
    /\ UNCHANGED <<argVars, lines, stats, excludedCount, console, allDistances,
                   allBearings, debugDistances, allPositions, viewVars,
                   distribution, beamStats>>

\* line 585
ComputeBeamWidth ==
    /\ pc = "sectors"
    /\ pc' = "done"
    /\ beamStats' = calculateBeamWidth(filteredBearings, filteredDistances)
    /\ UNCHANGED runVars
    /\ UNCHANGED <<argVars, ingestVars, viewVars, distribution>>

NextStats ==
    \/ PostFilter
    \/ ComputeDistribution
    \/ RecountSectors
    \/ ComputeBeamWidth

SpecStats == InitStats /\ [][NextStats]_vars

-----------------------------------------------------------------------------
(* SpecBeam: calculateBeamWidth applied to given arguments.  The arguments  *)
(* are held in filteredBearings and filteredDistances, as at line 585; the *)
(* other variables play no part.                                           *)

\* the bearings the enumerated arguments are made of
BeamBearings == { Deg(0), Deg(5), Deg(90), Deg(180), Deg(185), Deg(270), Deg(355) }

\* 100 bearings split evenly between 355 and 5 degrees
HundredSplit == [i \in 1..100 |-> IF i % 2 = 1 THEN Deg(355) ELSE Deg(5)]

\* 100 bearings uniform in [10, 20): 10.0, 10.1, ..., 19.9 degrees
HundredUniform == [i \in 1..100 |-> Deg(10) + (i - 1)]

\* 25 bearings 1, 2, ..., 25 degrees
TwentyFive == [i \in 1..25 |-> Deg(i)]

\* seven bearings whose 68% window is five equal bearings after a rotation
SevenWrap == <<Deg(0), Deg(0), Deg(0), Deg(0), Deg(0), Deg(185), Deg(355)>>

BeamArguments ==
    (SeqsUpTo(BeamBearings, MaxBearings) \ {<< >>})
        \cup {HundredSplit, HundredUniform, TwentyFive, SevenWrap}

InitBeam ==
    /\ pc = "sectors"
    /\ debugMode = FALSE
    /\ excludeMMSIs = {}
    /\ minDistance = 0
    /\ maxDistance = 0
    /\ lines = << >>
    /\ InitAcc(EmptyAcc)
    /\ filteredBearings \in BeamArguments
    /\ filteredDistances = [i \in DOMAIN filteredBearings |-> 10]
    /\ filteredPositions = << >>
    /\ distribution = Undefined
    /\ beamStats = Undefined
    /\ NoRun

NextBeam == ComputeBeamWidth

SpecBeam == InitBeam /\ [][NextBeam]_vars

-----------------------------------------------------------------------------
(* The arithmetic of lines 94-96 and 101 is IEEE 754 double arithmetic.    *)
(* A double's 53-bit significand, and the exact sums and products that are *)
(* rounded to it, are larger than the integers this module computes with,  *)
(* so a natural number of any size is kept as the sequence of its digits   *)
(* in base 2^15, least significant first, without leading zeros.           *)

Base == 2^15

RECURSIVE BigStrip(_)
\* without the leading zero digits
BigStrip(a) ==
    IF a # << >> /\ a[Len(a)] = 0 THEN BigStrip(SubSeq(a, 1, Len(a) - 1)) ELSE a

Limb(a, i) == IF i <= Len(a) THEN a[i] ELSE 0

RECURSIVE BigAddFrom(_, _, _, _)
BigAddFrom(a, b, i, carry) ==
    IF i > Len(a) /\ i > Len(b)
        THEN IF carry = 0 THEN << >> ELSE <<carry>>
        ELSE LET t == Limb(a, i) + Limb(b, i) + carry
             IN  <<t % Base>> \o BigAddFrom(a, b, i + 1, t \div Base)

BigAdd(a, b) == BigStrip(BigAddFrom(a, b, 1, 0))

RECURSIVE BigSubFrom(_, _, _, _)
BigSubFrom(a, b, i, borrow) ==
    IF i > Len(a) THEN << >>
    ELSE LET t == Limb(a, i) - Limb(b, i) - borrow
         IN  IF t < 0 THEN <<t + Base>> \o BigSubFrom(a, b, i + 1, 1)
                      ELSE <<t>> \o BigSubFrom(a, b, i + 1, 0)

\* a - b, for a >= b
BigSub(a, b) == BigStrip(BigSubFrom(a, b, 1, 0))

RECURSIVE BigCmpFrom(_, _, _)
BigCmpFrom(a, b, i) ==
    IF i = 0 THEN 0
    ELSE IF a[i] < b[i] THEN -1
    ELSE IF a[i] > b[i] THEN 1
    ELSE BigCmpFrom(a, b, i - 1)

\* -1, 0 or 1 as a is less than, equal to or greater than b
BigCmp(a, b) ==
    IF Len(a) < Len(b) THEN -1
    ELSE IF Len(a) > Len(b) THEN 1
    ELSE BigCmpFrom(a, b, Len(a))

RECURSIVE BigMulSmallFrom(_, _, _, _)
BigMulSmallFrom(a, m, i, carry) ==
    IF i > Len(a)
        THEN IF carry = 0 THEN << >> ELSE <<carry>>
        ELSE LET t == a[i] * m + carry
             IN  <<t % Base>> \o BigMulSmallFrom(a, m, i + 1, t \div Base)

\* a * m, for a digit m
BigMulSmall(a, m) == BigStrip(BigMulSmallFrom(a, m, 1, 0))

RECURSIVE BigMulFrom(_, _, _)
BigMulFrom(a, b, j) ==
    IF j > Len(b) THEN << >>
    ELSE BigAdd(BigMulSmall(a, b[j]), <<0>> \o BigMulFrom(a, b, j + 1))

BigMul(a, b) == BigStrip(BigMulFrom(a, b, 1))

RECURSIVE BigDivStep(_, _, _)
\* the digits i.. of a divided by the digit m: quotient digits and remainder
BigDivStep(a, m, i) ==
    IF i > Len(a) THEN [q |-> << >>, r |-> 0]
    ELSE LET up == BigDivStep(a, m, i + 1)
             cur == up.r * Base + a[i]
         IN  [q |-> <<cur \div m>> \o up.q, r |-> cur % m]

BigDivSmall(a, m) == BigStrip(BigDivStep(a, m, 1).q)

BigModSmall(a, m) == BigDivStep(a, m, 1).r

\* a * 2^k
ShiftLeft(a, k) ==
    IF a = << >> THEN << >>
    ELSE [i \in 1..(k \div 15) |-> 0] \o BigMulSmall(a, 2^(k % 15))

\* a \div 2^k
ShiftRight(a, k) ==
    IF k \div 15 >= Len(a) THEN << >>
    ELSE BigDivSmall(SubSeq(a, (k \div 15) + 1, Len(a)), 2^(k % 15))

\* the number of binary digits of a
BitLength(a) ==
    IF a = << >> THEN 0
    ELSE 15 * (Len(a) - 1)
            + (CHOOSE n \in 1..15 : 2^(n - 1) <= a[Len(a)] /\ a[Len(a)] < 2^n)

IsOdd(a) == a # << >> /\ a[1] % 2 = 1

\* r with the binary digit i set, if the square of that is still <= n
BigSqrtDigit(n, r, i) ==
    LET t == BigAdd(r, ShiftLeft(<<1>>, i))
    IN  IF BigCmp(BigMul(t, t), n) <= 0 THEN t ELSE r

RECURSIVE BigSqrtDigits(_, _, _, _)
\* the binary digits hi down to lo of the root decided in turn, r being the
\* digits above them.  The range is halved so that the evaluation stays
\* shallow, and the lower half is skipped when the upper half is the root
BigSqrtDigits(n, r, hi, lo) ==
    IF hi = lo THEN BigSqrtDigit(n, r, hi)
    ELSE LET mid == (hi + lo) \div 2
             upper == BigSqrtDigits(n, r, hi, mid + 1)
         IN  IF BigCmp(BigMul(upper, upper), n) = 0 THEN upper
             ELSE BigSqrtDigits(n, upper, mid, lo)

\* the integer part of the square root of n
BigSqrt(n) == BigSqrtDigits(n, << >>, (BitLength(n) + 1) \div 2, 0)

-----------------------------------------------------------------------------
(* A finite double is [sign, man, exp]: the number sign * man * 2^exp with *)
(* man odd and below 2^53, or Zero.  Every operation computes the exact    *)
(* result and rounds it to the nearest double, ties to even, as a          *)
(* JavaScript engine does for +, *, / and Math.sqrt.  The numbers of this  *)
(* computation are far from the overflow and underflow thresholds.         *)

Zero == [sign |-> 0, man |-> << >>, exp |-> 0]

RECURSIVE Canonical(_, _, _)
\* the same number with an odd significand
Canonical(sign, man, exp) ==
    IF man = << >> THEN Zero
    ELSE IF man[1] = 0 THEN Canonical(sign, Tail(man), exp + 15)
    ELSE LET k == CHOOSE n \in 0..14 : man[1] % 2^n = 0 /\ man[1] % 2^(n + 1) # 0
         IN  [sign |-> sign, man |-> BigDivSmall(man, 2^k), exp |-> exp + k]

\* the double nearest to sign * man * 2^exp
RoundToDouble(sign, man, exp) ==
    LET len == BitLength(man)
    IN  IF len <= 53 THEN Canonical(sign, man, exp)
        ELSE LET sh == len - 53
                 q == ShiftRight(man, sh)
                 rest == BigSub(man, ShiftLeft(q, sh))
                 c == BigCmp(rest, ShiftLeft(<<1>>, sh - 1))
             IN  IF c = 1 \/ (c = 0 /\ IsOdd(q))
                     THEN Canonical(sign, BigAdd(q, <<1>>), exp + sh)
                     ELSE Canonical(sign, q, exp + sh)

\* the double of a whole number below 2^15
FromInt(n) == IF n = 0 THEN Zero ELSE Canonical(1, <<n>>, 0)

One == FromInt(1)

\* x + y
FAdd(x, y) ==
    IF x.sign = 0 THEN y
    ELSE IF y.sign = 0 THEN x
    ELSE LET e == IF x.exp < y.exp THEN x.exp ELSE y.exp
             a == ShiftLeft(x.man, x.exp - e)
             b == ShiftLeft(y.man, y.exp - e)
             c == BigCmp(a, b)
         IN  IF x.sign = y.sign THEN RoundToDouble(x.sign, BigAdd(a, b), e)
             ELSE IF c = 0 THEN Zero
             ELSE IF c = 1 THEN RoundToDouble(x.sign, BigSub(a, b), e)
             ELSE RoundToDouble(y.sign, BigSub(b, a), e)

\* x * y
FMul(x, y) ==
    IF x.sign = 0 \/ y.sign = 0 THEN Zero
    ELSE RoundToDouble(x.sign * y.sign, BigMul(x.man, y.man), x.exp + y.exp)

\* x / n for a whole number n in 1..2^15-1: the quotient is taken to more
\* than 55 binary digits and a last digit records whether it is inexact
FDivInt(x, n) ==
    IF x.sign = 0 THEN Zero
    ELSE LET a == ShiftLeft(x.man, 75)
             q == BigDivSmall(a, n)
             sticky == IF BigModSmall(a, n) = 0 THEN << >> ELSE <<1>>
         IN  RoundToDouble(x.sign, BigAdd(BigMulSmall(q, 2), sticky), x.exp - 76)

\* Math.sqrt(x) for x >= 0, in the same way
FSqrt(x) ==
    IF x.sign = 0 THEN Zero
    ELSE LET k == 120 + (x.exp % 2)
             a == ShiftLeft(x.man, k)
             root == BigSqrt(a)
             sticky == IF BigCmp(BigMul(root, root), a) = 0 THEN << >> ELSE <<1>>
         IN  RoundToDouble(1, BigAdd(BigMulSmall(root, 2), sticky),
                           ((x.exp - k) \div 2) - 1)

\* x < y
FLess(x, y) == FAdd(x, [y EXCEPT !.sign = -@]).sign = -1

-----------------------------------------------------------------------------
(* The circular mean of calculateBeamWidth, lines 94-96 and 101 *)

\* the bearings whose cosine and sine are tabulated
CircularBearings == { Deg(0), Deg(8), Deg(90), Deg(180), Deg(270) }

\* Math.cos((b * Math.PI) / 180), the double the engine returns
CosOf(b) ==
    CASE b = Deg(0)   -> One
      [] b = Deg(8)   -> [sign |-> 1, man |-> <<19005, 10544, 24717, 126>>, exp |-> -52]
      [] b = Deg(90)  -> [sign |-> 1, man |-> <<23559, 26152, 6296, 141>>, exp |-> -106]
      [] b = Deg(180) -> [sign |-> -1, man |-> <<1>>, exp |-> 0]
      [] b = Deg(270) -> [sign |-> -1, man |-> <<17669, 19614, 29298, 105>>, exp |-> -104]

\* Math.sin((b * Math.PI) / 180)
SinOf(b) ==
    CASE b = Deg(0)   -> Zero
      [] b = Deg(8)   -> [sign |-> 1, man |-> <<7705, 11547, 16818, 142>>, exp |-> -55]
      [] b = Deg(90)  -> One
      [] b = Deg(180) -> [sign |-> 1, man |-> <<23559, 26152, 6296, 141>>, exp |-> -105]
      [] b = Deg(270) -> [sign |-> -1, man |-> <<1>>, exp |-> 0]

RECURSIVE SumCos(_, _)
\* bearings.reduce((sum, b) => sum + Math.cos(...), 0) over the first n
SumCos(bearings, n) ==
    IF n = 0 THEN Zero ELSE FAdd(SumCos(bearings, n - 1), CosOf(bearings[n]))

RECURSIVE SumSin(_, _)
SumSin(bearings, n) ==
    IF n = 0 THEN Zero ELSE FAdd(SumSin(bearings, n - 1), SinOf(bearings[n]))

meanX(bearings) == FDivInt(SumCos(bearings, Len(bearings)), Len(bearings))

meanY(bearings) == FDivInt(SumSin(bearings, Len(bearings)), Len(bearings))

\* line 96.  Math.atan2(0, x) is 0 for x > 0, and then the whole expression
\* is 0; for any other pair the model does not compute the angle
meanBearing(bearings) ==
    IF meanY(bearings) = Zero /\ meanX(bearings).sign = 1
        THEN Some(Zero) ELSE Undefined

\* line 101
concentration(bearings) ==
    LET x == meanX(bearings)
        y == meanY(bearings)
    IN  FSqrt(FAdd(FMul(x, x), FMul(y, y)))

\* the returned object with its two circular fields, lines 98-113
calculateBeamWidthCircular(bearings, distances) ==
    IF Len(bearings) = 0 THEN Undefined
    ELSE Some([meanBearing |-> meanBearing(bearings),
               concentration |-> concentration(bearings),
               beam |-> BeamWidth(bearings, distances)])

-----------------------------------------------------------------------------
(* SpecCircular: calculateBeamWidth applied to bearings whose cosine and   *)
(* sine are tabulated, its circular mean computed in double arithmetic     *)

MaxCircular == 3

FourNorth == <<Deg(0), Deg(0), Deg(0), Deg(0)>>

FourQuarters == <<Deg(0), Deg(90), Deg(180), Deg(270)>>

CircularArguments ==
    (SeqsUpTo(CircularBearings, MaxCircular) \ {<< >>}) \cup {FourNorth, FourQuarters}

InitCircular ==
    /\ pc = "sectors"
    /\ debugMode = FALSE
    /\ excludeMMSIs = {}
    /\ minDistance = 0
    /\ maxDistance = 0
    /\ lines = << >>
    /\ InitAcc(EmptyAcc)
    /\ filteredBearings \in CircularArguments
    /\ filteredDistances = [i \in DOMAIN filteredBearings |-> 10]
    /\ filteredPositions = << >>
    /\ distribution = Undefined
    /\ beamStats = Undefined
    /\ NoRun

\* line 585, the circular fields of the result included
ComputeCircular ==
    /\ pc = "sectors"
    /\ pc' = "done"
    /\ beamStats' = calculateBeamWidthCircular(filteredBearings, filteredDistances)
    /\ UNCHANGED runVars
    /\ UNCHANGED <<argVars, ingestVars, viewVars, distribution>>

NextCircular == ComputeCircular

SpecCircular == InitCircular /\ [][NextCircular]_vars

-----------------------------------------------------------------------------
(* SpecWindow: calculateBeamWidth applied to bearing sequences of every    *)
(* length from 1 up to a bound, for the index window of findPercentileRange *)

\* most bearings of an argument of calculateBeamWidth in SpecWindow
MaxWindow == 40

\* n bearings 1, 2, ..., n degrees: no window spans more than 180 degrees
Ascending(n) == [i \in 1..n |-> Deg(i)]

\* n bearings alternating between 355 and 5 degrees
Alternating(n) == [i \in 1..n |-> IF i % 2 = 1 THEN Deg(355) ELSE Deg(5)]

\* n bearings spread evenly around the circle
Around(n) == [i \in 1..n |-> ((i - 1) * Deg(360)) \div n]

WindowArguments ==
    UNION { {Ascending(n), Alternating(n), Around(n)} : n \in 1..MaxWindow }

InitWindow ==
    /\ pc = "sectors"
    /\ debugMode = FALSE
    /\ excludeMMSIs = {}
    /\ minDistance = 0
    /\ maxDistance = 0
    /\ lines = << >>
    /\ InitAcc(EmptyAcc)
    /\ filteredBearings \in WindowArguments
    /\ filteredDistances = [i \in DOMAIN filteredBearings |-> 10]
    /\ filteredPositions = << >>
    /\ distribution = Undefined
    /\ beamStats = Undefined
    /\ NoRun

NextWindow == ComputeBeamWidth

SpecWindow == InitWindow /\ [][NextWindow]_vars

-----------------------------------------------------------------------------
(* SpecDir: main() on a directory, processDirectory, lines 203-230 and     *)
(* 453-459.  An entry of a directory is a file or a directory.  A file has *)
(* the ending of its name, its lines, and the way reading it fails:        *)
(*   "none"   it is read to its end;                                       *)
(*   "spawn"  xz cannot be started (the child process emits 'error');      *)
(*   "xz"     xz writes `at` lines, reports an error on stderr and ends    *)
(*            with a non-zero status (a truncated or corrupt archive);     *)
(*   "read"   the read stream emits 'error' after `at` lines.              *)

\* most entries of the directory SpecDir starts from
MaxEntries == 3

File(name, ext, content, fault, at) ==
    [type |-> "file", name |-> name, ext |-> ext, lines |-> content,
     fault |-> fault, at |-> at, children |-> << >>]

Directory(name, children) ==
    [type |-> "dir", name |-> name, ext |-> "", lines |-> << >>,
     fault |-> "none", at |-> 0, children |-> children]

\* entry.name.endsWith('.json') || entry.name.endsWith('.json.xz')
Matches(entry) == entry.ext \in {".json", ".json.xz"}

\* filePath.endsWith('.xz')
EndsWithXz(file) == file.ext = ".json.xz"

\* the number of lines the stream of a file delivers
Delivered(file) ==
    CASE file.fault = "none"  -> Len(file.lines)
      [] file.fault = "spawn" -> 0
      [] file.fault = "xz"    -> file.at
      [] file.fault = "read"  -> file.at

\* mutant: a date present on both sides keeps the counts merged so far
MergeDateKeepFirst(a, f) ==
    IF f.maxDistance > a.maxDistance
        THEN [a EXCEPT !.maxDistance = f.maxDistance,
                       !.maxDistanceMMSI = f.maxDistanceMMSI]
        ELSE a

\* mutant: on equal maxima the later file replaces the recorded mmsi
MergeDateLastWins(a, f) ==
    LET summed == [a EXCEPT !.dayCount = @ + f.dayCount,
                            !.nightCount = @ + f.nightCount,
                            !.totalCount = @ + f.totalCount]
    IN  IF f.maxDistance >= summed.maxDistance
            THEN [summed EXCEPT !.maxDistance = f.maxDistance,
                                !.maxDistanceMMSI = f.maxDistanceMMSI]
            ELSE summed

\* lines 216-222: the counts add up, the larger maximum wins
MergeDate(a, f) ==
    LET summed == [a EXCEPT !.dayCount = @ + f.dayCount,
                            !.nightCount = @ + f.nightCount,
                            !.totalCount = @ + f.totalCount]
    IN  IF f.maxDistance > summed.maxDistance
            THEN [summed EXCEPT !.maxDistance = f.maxDistance,
                                !.maxDistanceMMSI = f.maxDistanceMMSI]
            ELSE summed

\* mutant: the aggregate of a later file replaces the one merged so far
MergeReplacing(all, fileStats) ==
    [d \in DOMAIN all \cup DOMAIN fileStats |->
        IF d \in DOMAIN fileStats THEN fileStats[d] ELSE all[d]]

\* lines 212-224: for (const date in fileStats) ...
Merge(all, fileStats) ==
    [d \in DOMAIN all \cup DOMAIN fileStats |->
        IF d \notin DOMAIN all THEN fileStats[d]
        ELSE IF d \notin DOMAIN fileStats THEN all[d]
        ELSE MergeDate(all[d], fileStats[d])]

\* the files of the model
DayOne == << Message(456, N5, Stamp(1, 0, 9)), Message(789, W60, Stamp(1, 2, 2)) >>

TwoDays == << Message(789, E15, Stamp(1, 1, 4)), Message(456, S30, Stamp(2, 0, 9)) >>

Tied == << Message(456, NNE60, Stamp(1, 2, 0)) >>

\* a file with lines that are dropped: undecodable, beyond the ceiling, of
\* another topic, without a timestamp, and one sample
Mixed == << Garbage, Message(456, N150, Stamp(1, 0, 9)),
            [Message(123, N5, Stamp(1, 0, 9)) EXCEPT !.topic = "ais/status"],
            Message(789, NNW5, Stamp(2, 1, 9)),
            [Message(456, N5, Stamp(1, 0, 9)) EXCEPT !.hasTimestamp = FALSE] >>

DirEntries ==
    { File("a.json", ".json", DayOne, "none", 0),
      File("a.json", ".json", DayOne, "read", 1),
      File("b.json.xz", ".json.xz", TwoDays, "none", 0),
      File("b.json.xz", ".json.xz", TwoDays, "xz", 1),
      File("b.json.xz", ".json.xz", TwoDays, "spawn", 0),
      File("c.json", ".json", Tied, "none", 0),
      File("m.json", ".json", Mixed, "none", 0),
      File("notes.txt", ".txt", << Garbage >>, "none", 0),
      Directory("sub", << File("d.json", ".json", Tied, "none", 0),
                          File("e.json.xz", ".json.xz", DayOne, "none", 0) >>) }

\* the listings fs.readdirSync returns for the input directory
Listings ==
    { l \in SeqsUpTo(DirEntries, MaxEntries) :
        \A i, j \in DOMAIN l : l[i].name = l[j].name => i = j }

InitDir ==
    /\ pc = "directory"
    /\ debugMode = FALSE
    /\ excludeMMSIs = {}
    /\ minDistance = 0
    /\ maxDistance = 0
    /\ lines = << >>
    /\ InitAcc(EmptyAcc)
    /\ NoView
    /\ args = << >>
    /\ exitCode = Undefined
    /\ todo \in Listings
    /\ fsLog = << [op |-> "stat", path |-> "."], [op |-> "readdir", path |-> "."] >>
    /\ current = Undefined
    /\ allStats = << >>
    /\ processed = << >>

\* mutant: the entries of a sub-directory are visited after the remaining ones
EnterDirectoryLater ==
    /\ pc = "directory"
    /\ todo # << >>
    /\ Head(todo).type = "dir"
    /\ todo' = Tail(todo) \o Head(todo).children
    /\ fsLog' = Append(fsLog, [op |-> "readdir", path |-> Head(todo).name])
    /\ UNCHANGED <<pc, argVars, ingestVars, viewVars, distribution, beamStats,
                   args, exitCode, current, allStats, processed>>

\* one iteration of the loop of processDir over an entry that is a directory:
\* await processDir(fullPath), whose entries come before the remaining ones
EnterDirectory ==
    /\ pc = "directory"
    /\ todo # << >>
    /\ Head(todo).type = "dir"
    /\ todo' = Head(todo).children \o Tail(todo)
    /\ fsLog' = Append(fsLog, [op |-> "readdir", path |-> Head(todo).name])
    /\ UNCHANGED <<pc, argVars, ingestVars, viewVars, distribution, beamStats,
                   args, exitCode, current, allStats, processed>>

\* an entry that is a file with another ending: nothing is done
SkipEntry ==
    /\ pc = "directory"
    /\ todo # << >>
    /\ Head(todo).type = "file"
    /\ ~Matches(Head(todo))
    /\ todo' = Tail(todo)
    /\ UNCHANGED <<pc, argVars, ingestVars, viewVars, distribution, beamStats,
                   args, exitCode, fsLog, current, allStats, processed>>

\* lines 210-211 and 117-133: the file is announced and processFile opens it
OpenFile ==
    /\ pc = "directory"
    /\ todo # << >>
    /\ Head(todo).type = "file"
    /\ Matches(Head(todo))
    /\ pc' = "reading"
    /\ todo' = Tail(todo)
    /\ current' = Some(Head(todo))
    /\ fsLog' = Append(fsLog, [op |-> IF EndsWithXz(Head(todo)) THEN "spawn xz" ELSE "open",
                               path |-> Head(todo).name])
    /\ console' = Append(console, [msg |-> "processing", n |-> Head(todo).name])
    /\ lines' = << >>
    /\ stats' = << >>
    /\ excludedCount' = 0
    /\ UNCHANGED <<argVars, allDistances, bearingCounts, allBearings, debugDistances,
                   allPositions, viewVars, distribution, beamStats, args, exitCode,
                   allStats, processed>>

\* one iteration of for await (const line of rl) on the file being read
ReadLine ==
    /\ pc = "reading"
    /\ current # Undefined
    /\ Len(lines) < Delivered(current[1])
    /\ lines' = Append(lines, current[1].lines[Len(lines) + 1])
    /\ SetAcc(HandleLine(Acc, current[1].lines[Len(lines) + 1], debugMode, excludeMMSIs))
    /\ UNCHANGED <<pc, argVars, viewVars, distribution, beamStats, runVars>>

\* lines 121-124: the handler of the child's 'error' event logs and throws;
\* nothing catches an exception thrown from an event handler and the process
\* ends with status 1
SpawnFails ==
    /\ pc = "reading"
    /\ current # Undefined
    /\ current[1].fault = "spawn"
    /\ pc' = "exited"
    /\ exitCode' = Some(1)
    /\ console' = Append(console, [msg |-> "failed to spawn xz", n |-> current[1].name])
    /\ UNCHANGED <<argVars, lines, stats, excludedCount, allDistances, bearingCounts,
                   allBearings, debugDistances, allPositions, viewVars, distribution,
                   beamStats, args, fsLog, todo, current, allStats, processed>>

\* the read stream emits 'error'.  Either readline passes it on to the loop,
\* processFile, processDirectory and main reject in turn and main().catch
\* (line 621) logs it, the process ending with status 0; or nothing listens
\* to the event and the process ends on the uncaught error with status 1.
\* Which one depends on the version of the runtime.
StreamFails ==
    /\ pc = "reading"
    /\ current # Undefined
    /\ current[1].fault = "read"
    /\ Len(lines) = Delivered(current[1])
    /\ pc' = "exited"
    /\ \E status \in {0, 1} : exitCode' = Some(status)
    /\ console' = Append(console, [msg |-> "read error", n |-> current[1].name])
    /\ UNCHANGED <<argVars, lines, stats, excludedCount, allDistances, bearingCounts,
                   allBearings, debugDistances, allPositions, viewVars, distribution,
                   beamStats, args, fsLog, todo, current, allStats, processed>>

\* line 120: what xz has written to stderr before its stream ended
ReportXz(acc, file) ==
    IF file.fault = "xz"
        THEN [acc EXCEPT !.console = Append(@, [msg |-> "xz error", n |-> file.name])]
        ELSE acc

\* the stream ends (also when xz has ended with an error: its status is not
\* looked at), processFile returns its stats (lines 198-200) and
\* processDirectory merges them (lines 212-224)
FinishFile ==
    /\ pc = "reading"
    /\ current # Undefined
    /\ current[1].fault \in {"none", "xz"}
    /\ Len(lines) = Delivered(current[1])
    /\ pc' = "directory"
    /\ SetAcc(ReportExcluded(ReportXz(Acc, current[1])))
    /\ allStats' = Merge(allStats, stats)
    /\ processed' = Append(processed, current[1])
    /\ current' = Undefined
    /\ UNCHANGED <<argVars, lines, viewVars, distribution, beamStats, args, exitCode,
                   fsLog, todo>>

\* lines 228-229 and 455-459: the traversal is over and main takes the result
FinishDirectory ==
    /\ pc = "directory"
    /\ todo = << >>
    /\ pc' = "read"
    /\ stats' = allStats
    /\ UNCHANGED <<argVars, lines, excludedCount, console, allDistances,
                   bearingCounts, allBearings, debugDistances, allPositions,
                   viewVars, distribution, beamStats, runVars>>

NextDir ==
    \/ EnterDirectory
    \/ SkipEntry
    \/ OpenFile
    \/ ReadLine
    \/ SpawnFails
    \/ StreamFails
    \/ FinishFile
    \/ FinishDirectory

SpecDir == InitDir /\ [][NextDir]_vars

-----------------------------------------------------------------------------
(* SpecMain: main() from its start to the first file-system call, lines    *)
(* 387-460.  An argument is a name, optionally followed by '=' and a       *)
(* value: [name, eq, num, text, ids] stands for the text name, name=num,   *)
(* name=text or name=id,id,... .  No name of the model is the beginning of *)
(* another one, so that arg.startsWith(name) is the equality of the names. *)

\* most arguments of the command line of SpecMain
MaxArgs == 3

Word(name) == [name |-> name, eq |-> FALSE, num |-> 0, text |-> "", ids |-> {}]

WithNumber(name, num) == [Word(name) EXCEPT !.eq = TRUE, !.num = num]

WithText(name, text) == [Word(name) EXCEPT !.eq = TRUE, !.text = text]

WithIds(name, ids) == [Word(name) EXCEPT !.eq = TRUE, !.ids = ids]

\* the arguments of the model
Arguments ==
    { Word("--debug"), Word("--display"), WithNumber("--display", 8080),
      WithNumber("--display", 0), WithText("--apikey", "KEY"), WithText("--apikey", ""),
      WithNumber("--min-distance", 10), WithNumber("--max-distance", 50),
      WithIds("--exclude", {123}),
      Word("data.json"), Word("logs"), Word("missing.json") }

\* what fs.statSync finds: a file, a directory, or nothing (it throws)
PathKind(arg) ==
    CASE arg = Word("data.json") -> "file"
      [] arg = Word("logs")      -> "directory"
      [] OTHER                   -> "none"

\* arg.startsWith(name)
StartsWith(arg, name) == arg.name = name

\* arg.startsWith(name + '=')
StartsWithEq(arg, name) == arg.name = name /\ arg.eq

\* args.find((arg) => arg.startsWith(name)), absent when there is none
FindName(list, name) ==
    LET hits == { i \in DOMAIN list : StartsWith(list[i], name) }
    IN  IF hits = {} THEN Undefined
        ELSE Some(list[CHOOSE i \in hits : \A j \in hits : i <= j])

\* args.find((arg) => arg.startsWith(name + '=')), absent when there is none
FindNameEq(list, name) ==
    LET hits == { i \in DOMAIN list : StartsWithEq(list[i], name) }
    IN  IF hits = {} THEN Undefined
        ELSE Some(list[CHOOSE i \in hits : \A j \in hits : i <= j])

\* lines 391-396
DisplayPort(list) ==
    LET displayArg == FindName(list, "--display")
    IN  IF displayArg = Undefined THEN Undefined
        ELSE IF ~displayArg[1].eq THEN Some(9001)
        ELSE Some(displayArg[1].num)

\* lines 398-400
ApiKey(list) ==
    LET apiKeyArg == FindNameEq(list, "--apikey")
    IN  IF apiKeyArg = Undefined THEN Undefined ELSE Some(apiKeyArg[1].text)

\* lines 402-408
DistanceOption(list, name) ==
    LET arg == FindNameEq(list, name)
    IN  IF arg = Undefined THEN 0 ELSE arg[1].num

\* lines 410-419
ExcludeOption(list) ==
    LET excludeArg == FindNameEq(list, "--exclude")
    IN  IF excludeArg = Undefined THEN {} ELSE excludeArg[1].ids

\* line 421
FilteredArgs(list) ==
    LET Kept(arg) ==
            /\ arg # Word("--debug")
            /\ ~StartsWith(arg, "--display")
            /\ ~StartsWith(arg, "--min-distance")
            /\ ~StartsWith(arg, "--exclude")
            /\ ~StartsWith(arg, "--apikey")
    IN  SelectSeq(list, Kept)

\* a number or a string that JavaScript takes as true: present, not 0, not ''
TruthyNumber(v) == v # Undefined /\ v[1] # 0

TruthyText(v) == v # Undefined /\ v[1] # ""

\* mutant: the credential is not asked for
NeedsCredentialNever(list) == FALSE

\* displayPort && !apiKey
NeedsCredential(list) == TruthyNumber(DisplayPort(list)) /\ ~TruthyText(ApiKey(list))

ArgLists == SeqsUpTo(Arguments, MaxArgs)

InitMain ==
    /\ pc = "start"
    /\ args \in ArgLists
    /\ debugMode = FALSE
    /\ excludeMMSIs = {}
    /\ minDistance = 0
    /\ maxDistance = 0
    /\ lines = << >>
    /\ InitAcc(EmptyAcc)
    /\ NoView
    /\ exitCode = Undefined
    /\ fsLog = << >>
    /\ todo = << >>
    /\ current = Undefined
    /\ allStats = << >>
    /\ processed = << >>

\* lines 387-421
ParseArguments ==
    /\ pc = "start"
    /\ pc' = "parsed"
    /\ debugMode' = (\E i \in DOMAIN args : args[i] = Word("--debug"))
    /\ minDistance' = DistanceOption(args, "--min-distance")
    /\ maxDistance' = DistanceOption(args, "--max-distance")
    /\ excludeMMSIs' = ExcludeOption(args)
    /\ console' = IF FindNameEq(args, "--exclude") # Undefined
                      THEN Append(console, [msg |-> "excluding", n |-> 0])
                      ELSE console
    /\ UNCHANGED <<lines, stats, excludedCount, allDistances, bearingCounts,
                   allBearings, debugDistances, allPositions, viewVars,
                   distribution, beamStats, runVars>>

\* lines 423-437
CheckUsage ==
    /\ pc = "parsed"
    /\ IF Len(FilteredArgs(args)) = 0
          THEN /\ console' = Append(console, [msg |-> "usage", n |-> 0])
               /\ exitCode' = Some(1)
               /\ pc' = "exited"
          ELSE /\ pc' = "usage checked"
               /\ UNCHANGED <<console, exitCode>>
    /\ UNCHANGED <<argVars, lines, stats, excludedCount, allDistances, bearingCounts,
                   allBearings, debugDistances, allPositions, viewVars,
                   distribution, beamStats, args, fsLog, todo, current, allStats,
                   processed>>

\* lines 439-443
CheckCredential ==
    /\ pc = "usage checked"
    /\ IF NeedsCredential(args)
          THEN /\ console' = Append(console, [msg |-> "apikey required", n |-> 0])
               /\ exitCode' = Some(1)
               /\ pc' = "exited"
          ELSE /\ pc' = "checked"
               /\ UNCHANGED <<console, exitCode>>
    /\ UNCHANGED <<argVars, lines, stats, excludedCount, allDistances, bearingCounts,
                   allBearings, debugDistances, allPositions, viewVars,
                   distribution, beamStats, args, fsLog, todo, current, allStats,
                   processed>>

\* lines 445-460, up to the call of processDirectory or processFile.  When the
\* path does not exist fs.statSync throws, main rejects and main().catch
\* (line 621) logs the error: the process then ends with status 0
StatInput ==
    /\ pc = "checked"
    /\ LET inputPath == FilteredArgs(args)[1]
       IN  /\ fsLog' = Append(fsLog, [op |-> "stat", path |-> inputPath.name])
           /\ CASE PathKind(inputPath) = "none" ->
                     /\ console' = Append(console, [msg |-> "no such file", n |-> 0])
                     /\ exitCode' = Some(0)
                     /\ pc' = "exited"
                [] PathKind(inputPath) = "directory" ->
                     /\ pc' = "directory"
                     /\ UNCHANGED <<console, exitCode>>
                [] PathKind(inputPath) = "file" ->
                     /\ pc' = "reading"
                     /\ UNCHANGED <<console, exitCode>>
    /\ UNCHANGED <<argVars, lines, stats, excludedCount, allDistances, bearingCounts,
                   allBearings, debugDistances, allPositions, viewVars,
                   distribution, beamStats, args, todo, current, allStats, processed>>

NextMain ==
    \/ ParseArguments
    \/ CheckUsage
    \/ CheckCredential
    \/ StatInput

SpecMain == InitMain /\ [][NextMain]_vars

-----------------------------------------------------------------------------
(* What the file read so far says, stated without the accumulators *)

RECURSIVE SumOver(_, _)
\* the sum of f[x] over the x of the finite set S
SumOver(S, f) ==
    IF S = {} THEN 0
    ELSE LET x == CHOOSE y \in S : TRUE IN f[x] + SumOver(S \ {x}, f)

Range(s) == { s[i] : i \in DOMAIN s }

DistanceOf(data) == calculateDistance(MY_LAT, MY_LON, data.lat, data.lon)

BearingOf(data) == calculateBearing(MY_LAT, MY_LON, data.lat, data.lon)

\* the record passes every ingestion filter
PassesEveryFilter(data) ==
    /\ data.parses
    /\ data.topic = "ais/data"
    /\ data.hasPayload
    /\ data.mmsi \notin excludeMMSIs
    /\ data.hasLat /\ data.hasLon
    /\ Abs(data.lat) <= 90 * 1000000
    /\ Abs(data.lon) <= 180 * 1000000
    /\ DistanceOf(data) <= 100

\* the lines that pass every filter and carry the timestamp a sample needs
SampledLines ==
    LET Sampled(data) == PassesEveryFilter(data) /\ data.hasTimestamp
    IN  SelectSeq(lines, Sampled)

\* the sampled lines of one date
SampledOn(date) ==
    LET OnDate(data) == SubSeq(data.timestamp, 1, 8) = date
    IN  SelectSeq(SampledLines, OnDate)

HourOf(data) == 10 * data.timestamp[9] + data.timestamp[10]

PositionOf(data) ==
    [lat |-> data.lat, lon |-> data.lon, bearing |-> BearingOf(data),
     distance |-> DistanceOf(data), mmsi |-> data.mmsi]

-----------------------------------------------------------------------------
(* C1.  After any sequence of input lines the global distance, bearing and *)
(* position sequences, the sector counts and the per-date aggregates hold  *)
(* exactly the lines that passed every ingestion filter (topic, payload,   *)
(* mmsi not excluded, lat and lon present and in range, distance <= 100    *)
(* nm): a line failing any filter contributes to none of them.             *)
C1_OnlyFilteredRecordsAreSamples ==
    LET ok == SampledLines
        n  == Len(ok)
    IN  /\ allPositions = [i \in 1..n |-> PositionOf(ok[i])]
        /\ allDistances = [i \in 1..n |-> DistanceOf(ok[i])]
        /\ allBearings = [i \in 1..n |-> BearingOf(ok[i])]
        /\ DOMAIN bearingCounts = { Sector(BearingOf(ok[i])) : i \in 1..n }
        /\ \A s \in DOMAIN bearingCounts :
              bearingCounts[s] = Cardinality({ i \in 1..n : Sector(BearingOf(ok[i])) = s })
        /\ DOMAIN stats = { SubSeq(ok[i].timestamp, 1, 8) : i \in 1..n }
        /\ \A d \in DOMAIN stats :
              /\ stats[d].totalCount = Len(SampledOn(d))
              /\ \E data \in Range(SampledOn(d)) : stats[d].maxDistance = DistanceOf(data)

\* C1 witness: a file with a line failing each kind of filter and one sample
C1_Witness ==
    /\ Len(lines) = MaxLines
    /\ Len(allPositions) = 1
    /\ \E i \in DOMAIN lines : lines[i].parses /\ lines[i].hasLat /\ lines[i].hasLon
                               /\ lines[i].lat = N150.lat
    /\ \E i \in DOMAIN lines : lines[i].parses /\ lines[i].lat = BadLat.lat

-----------------------------------------------------------------------------
(* C2.  No record whose mmsi is in the exclusion set contributes to the    *)
(* per-date aggregates, the global sequences, the sector counts or the     *)
(* debug collection; the excluded counter equals the number of recognized  *)
(* records read with such an mmsi, and its total is reported at most once  *)
(* per file, at the end of the file, and only when it is positive.         *)
C2_ExcludedNeverContribute ==
    LET excludedLines ==
            { i \in DOMAIN lines :
                /\ lines[i].parses
                /\ lines[i].topic = "ais/data"
                /\ lines[i].hasPayload
                /\ lines[i].mmsi \in excludeMMSIs }
        reports == { i \in DOMAIN console : console[i].msg = "excluded" }
    IN  /\ \A i \in DOMAIN allPositions : allPositions[i].mmsi \notin excludeMMSIs
        /\ \A i \in DOMAIN debugDistances : debugDistances[i].mmsi \notin excludeMMSIs
        /\ \A d \in DOMAIN stats :
              \A m \in excludeMMSIs : stats[d].maxDistanceMMSI # Some(m)
        /\ Len(allDistances) = Len(allPositions)
        /\ Len(allBearings) = Len(allPositions)
        /\ SumOver(DOMAIN bearingCounts, bearingCounts) = Len(allPositions)
        /\ SumOver(DOMAIN stats, [d \in DOMAIN stats |-> stats[d].totalCount])
              = Len(allPositions)
        /\ excludedCount = Cardinality(excludedLines)
        /\ Cardinality(reports) <= 1
        /\ (pc = "reading" => reports = {})
        /\ (pc = "read" => (reports # {} <=> excludedCount > 0))
        /\ \A i \in reports : console[i].n = excludedCount

\* C2 witness: two records of the excluded mmsi 123 dropped, one sample kept
C2_Witness ==
    /\ pc = "read"
    /\ excludeMMSIs = {123}
    /\ excludedCount = 2
    /\ Len(allPositions) = 1
    /\ console = <<[msg |-> "excluded", n |-> 2]>>

-----------------------------------------------------------------------------
(* C3.  For each date, totalCount is the number of accepted samples whose  *)
(* timestamp starts with that date, dayCount the number of those whose     *)
(* hour (characters 9-10) is in [8,20) and nightCount the number of the    *)
(* others; three samples of one date with hours 09, 14, 22 give dayCount 2,*)
(* nightCount 1, totalCount 3.                                             *)
C3_DayNightCounts ==
    /\ \A d \in DOMAIN stats :
          LET on == SampledOn(d)
              day == { i \in DOMAIN on : 8 <= HourOf(on[i]) /\ HourOf(on[i]) < 20 }
          IN  /\ stats[d].totalCount = Len(on)
              /\ stats[d].dayCount = Cardinality(day)
              /\ stats[d].nightCount = Len(on) - Cardinality(day)
    /\ \A i \in DOMAIN SampledLines :
          SubSeq(SampledLines[i].timestamp, 1, 8) \in DOMAIN stats
    /\ ( /\ excludeMMSIs = {}
         /\ lines = << Message(456, N5, Stamp(1, 0, 9)),
                       Message(456, N5, Stamp(1, 1, 4)),
                       Message(456, N5, Stamp(1, 2, 2)) >> )
       => /\ stats[<<2, 0, 2, 4, 0, 1, 0, 1>>].dayCount = 2
          /\ stats[<<2, 0, 2, 4, 0, 1, 0, 1>>].nightCount = 1
          /\ stats[<<2, 0, 2, 4, 0, 1, 0, 1>>].totalCount = 3

\* C3 witness: the three-record file with hours 09, 14, 22 has been read
C3_Witness ==
    /\ Len(lines) = 3
    /\ { HourOf(lines[i]) : i \in DOMAIN lines } = {9, 14, 22}
    /\ DOMAIN stats = { <<2, 0, 2, 4, 0, 1, 0, 1>> }
    /\ stats[<<2, 0, 2, 4, 0, 1, 0, 1>>].totalCount = 3
    /\ stats[<<2, 0, 2, 4, 0, 1, 0, 1>>].dayCount = 2

-----------------------------------------------------------------------------
(* C4.  The post-filter keeps exactly the indices i of the global sequences *)
(* with (minDistance <= 0 or distance[i] >= minDistance) and (maxDistance   *)
(* <= 0 or distance[i] <= maxDistance), in their original order, and the    *)
(* filtered distances, bearings and positions are taken at those same       *)
(* indices; min 10 and max 50 on distances [5,15,30,60] give [15,30] with   *)
(* the bearings and positions of indices 2 and 3.                           *)
C4_PostFilterSelects ==
    pc = "filtered" =>
        LET keep == { i \in DOMAIN allDistances :
                        /\ (minDistance <= 0 \/ allDistances[i] >= minDistance)
                        /\ (maxDistance <= 0 \/ allDistances[i] <= maxDistance) }
            Nth(k) == CHOOSE i \in keep : Cardinality({ j \in keep : j < i }) = k - 1
        IN  /\ Len(filteredDistances) = Cardinality(keep)
            /\ Len(filteredBearings) = Cardinality(keep)
            /\ Len(filteredPositions) = Cardinality(keep)
            /\ \A k \in 1..Cardinality(keep) :
                  /\ filteredDistances[k] = allDistances[Nth(k)]
                  /\ filteredBearings[k] = allBearings[Nth(k)]
                  /\ filteredPositions[k] = allPositions[Nth(k)]
            /\ (minDistance = 10 /\ maxDistance = 50 /\ allDistances = <<5, 15, 30, 60>>)
                  => /\ filteredDistances = <<15, 30>>
                     /\ filteredBearings = <<allBearings[2], allBearings[3]>>
                     /\ filteredPositions = <<allPositions[2], allPositions[3]>>

\* C4 witness: the example, filtered
C4_Witness ==
    /\ pc = "filtered"
    /\ minDistance = 10
    /\ maxDistance = 50
    /\ allDistances = <<5, 15, 30, 60>>
    /\ filteredDistances = <<15, 30>>
    /\ filteredBearings = <<Deg(90), Deg(180)>>

-----------------------------------------------------------------------------
(* C5.  The top-5%-by-distance analysis works on pairs in which each       *)
(* bearing carries the distance of the same sample of the filtered view,   *)
(* and so selects the bearings of the samples that have the largest        *)
(* distances, although the histogram is computed from the same distance    *)
(* sequence first.                                                         *)
C5_TopPairsAreSamples ==
    (pc = "done" /\ beamStats # Undefined) =>
        LET top == top5Percent(filteredBearings, filteredDistances)
        IN  /\ \A k \in DOMAIN top :
                  \E i \in DOMAIN filteredPositions :
                      /\ filteredPositions[i].bearing = top[k].bearing
                      /\ filteredPositions[i].distance = top[k].distance
            /\ \A i \in DOMAIN filteredPositions :
                  \/ filteredPositions[i].distance <= top[Len(top)].distance
                  \/ filteredPositions[i].bearing \in Range(beamStats[1].maxDistance.bearings)

-----------------------------------------------------------------------------
(* C6.  For a non-empty filtered distance sequence the ten bin counts of   *)
(* calculateDistribution sum to the number of distances.                   *)
C6_BinsSumToCount ==
    distribution # Undefined =>
        /\ distribution[1].count = Len(filteredDistances)
        /\ SumOver(0..9, distribution[1].bins) = distribution[1].count

-----------------------------------------------------------------------------
(* C7.  When all filtered distances are equal (min = max, binSize 0) every *)
(* value is counted in bin 9 and bins 0..8 stay 0.                         *)
C7_DegenerateInLastBin ==
    (distribution # Undefined /\ distribution[1].min = distribution[1].max) =>
        /\ distribution[1].bins[9] = distribution[1].count
        /\ \A b \in 0..8 : distribution[1].bins[b] = 0

-----------------------------------------------------------------------------
\* the results of findPercentileRange in beamStats, by percentile
PercentileResults ==
    (68 :> beamStats[1].percentile68) @@ (95 :> beamStats[1].percentile95)
        @@ (99 :> beamStats[1].percentile99)

\* the window bounds <<adjMin, adjMax>> at each of the 36 rotations
RotatedWindows(sorted, s, e) ==
    [k \in 0..35 |->
        LET adjusted == SortAsc([i \in DOMAIN sorted |->
                                    (sorted[i] + k * Deg(10)) % Deg(360)])
        IN  <<adjusted[s + 1], adjusted[e + 1]>>]

(* C8.  When the raw percentile window of the sorted bearings spans more   *)
(* than 180 degrees, the reported bounds are the un-rotated bounds of the  *)
(* same index window at one of the rotations 0, 10, ..., 350 whose window  *)
(* span is minimal among the 36; 100 bearings split evenly between 355 and *)
(* 5 degrees give, for p = 0.68, minBearing 355, maxBearing 5 and          *)
(* beamWidth 10.                                                           *)
C8_WraparoundKeepsMinimalRotation ==
    (pc = "done" /\ beamStats # Undefined) =>
        /\ \A p \in {68, 95, 99} :
              \E sorted \in { SortAsc(filteredBearings) } :
                  LET s == startIdx(p, Len(sorted))
                      e == endIdx(p, Len(sorted))
                      r == PercentileResults[p]
                  IN  sorted[e + 1] - sorted[s + 1] > Deg(180) =>
                        \E w \in { RotatedWindows(sorted, s, e) } :
                          \E k \in 0..35 :
                            /\ \A j \in 0..35 : w[k][2] - w[k][1] <= w[j][2] - w[j][1]
                            /\ r.minBearing = (w[k][1] - k * Deg(10) + Deg(360)) % Deg(360)
                            /\ r.maxBearing = (w[k][2] - k * Deg(10) + Deg(360)) % Deg(360)
        /\ filteredBearings = HundredSplit =>
              /\ beamStats[1].percentile68.minBearing = Deg(355)
              /\ beamStats[1].percentile68.maxBearing = Deg(5)
              /\ beamStats[1].percentile68.beamWidth = Deg(10)

\* C8 witness: the split example analysed, its raw window spanning 350 degrees
C8_Witness ==
    /\ pc = "done"
    /\ filteredBearings = HundredSplit
    /\ SortAsc(filteredBearings)[endIdx(68, 100) + 1]
          - SortAsc(filteredBearings)[startIdx(68, 100) + 1] = Deg(350)
    /\ beamStats[1].percentile68.beamWidth = Deg(10)

-----------------------------------------------------------------------------
(* C9.  For N sorted bearings and p in {0.68, 0.95, 0.99} the window is    *)
(* the index range [floor((1-p)/2*N), ceil((1+p)/2*N)-1]; when the         *)
(* bearings at those two indices differ by at most 180 degrees, minBearing *)
(* and maxBearing are those two sorted values and beamWidth is their       *)
(* difference.                                                             *)
C9_DirectWindow ==
    (pc = "done" /\ beamStats # Undefined) =>
        \A p \in {68, 95, 99} :
            \E sorted \in { SortAsc(filteredBearings) } :
                LET n == Len(sorted)
                    lo == sorted[((100 - p) * n) \div 200 + 1]
                    hi == sorted[((100 + p) * n + 199) \div 200]
                    r == PercentileResults[p]
                IN  hi - lo <= Deg(180) =>
                      /\ r.minBearing = lo
                      /\ r.maxBearing = hi
                      /\ r.beamWidth = hi - lo

-----------------------------------------------------------------------------
\* the largest distance among the samples of a date
LargestOn(date) ==
    LET on == SampledOn(date)
    IN  CHOOSE m \in { DistanceOf(on[i]) : i \in DOMAIN on } :
            \A i \in DOMAIN on : DistanceOf(on[i]) <= m

\* the mmsi of the earliest sample of a date that attains its largest distance
FirstAttaining(date) ==
    LET on == SampledOn(date)
        at == { i \in DOMAIN on : DistanceOf(on[i]) = LargestOn(date) }
        first == CHOOSE i \in at : \A j \in at : i <= j
    IN  on[first].mmsi

(* C10 as stated.  For every date with a sample, maxDistance is the        *)
(* largest distance among the date's samples and maxDistanceId the mmsi of *)
(* the earliest sample attaining it.                                       *)
C10_AsStated ==
    \A d \in DOMAIN stats :
        /\ stats[d].maxDistance = LargestOn(d)
        /\ stats[d].maxDistanceMMSI = Some(FirstAttaining(d))

(* C10 as amended.  For every date with a sample, maxDistance is the       *)
(* largest distance among the date's samples; maxDistanceId is the mmsi of *)
(* the earliest sample attaining it when that distance is greater than 0   *)
(* and is absent when every sample of the date lies at distance 0.         *)
C10_MaxDistanceFirstSeen ==
    \A d \in DOMAIN stats :
        /\ stats[d].maxDistance = LargestOn(d)
        /\ stats[d].maxDistanceMMSI =
              IF LargestOn(d) > 0 THEN Some(FirstAttaining(d)) ELSE Undefined

\* C10 witness: two ships tie at the largest distance and the first one is kept
C10_Witness ==
    \E d \in DOMAIN stats :
        LET on == SampledOn(d)
        IN  /\ \E i, j \in DOMAIN on :
                  /\ i < j
                  /\ on[i].mmsi # on[j].mmsi
                  /\ DistanceOf(on[i]) = LargestOn(d)
                  /\ DistanceOf(on[j]) = LargestOn(d)
                  /\ stats[d].maxDistanceMMSI = Some(on[i].mmsi)
            /\ LargestOn(d) > 0

-----------------------------------------------------------------------------
(* C11.  Whenever minDistance > 0 the sector counts the report uses are    *)
(* the counts of the filtered bearings per sector floor(b/15)*15, never    *)
(* the counts accumulated during ingestion, also when the filter leaves no *)
(* bearing at all.                                                         *)
C11_SectorsFromFilteredBearings ==
    (pc \in {"sectors", "done"} /\ minDistance > 0) =>
        bearingCounts = SectorCounts(filteredBearings, Len(filteredBearings))

-----------------------------------------------------------------------------
\* the record reaches the distance test and lies beyond the ceiling
BeyondCeiling(data) ==
    /\ data.parses
    /\ data.topic = "ais/data"
    /\ data.hasPayload
    /\ data.mmsi \notin excludeMMSIs
    /\ data.hasLat /\ data.hasLon
    /\ Abs(data.lat) <= 90 * 1000000
    /\ Abs(data.lon) <= 180 * 1000000
    /\ DistanceOf(data) > 100

\* the record reaches the distance test and lies exactly at the ceiling
AtCeiling(data) ==
    /\ PassesEveryFilter(data)
    /\ DistanceOf(data) = 100

\* the entry of the debug collection for a record
DebugEntryOf(data) ==
    [distance |-> DistanceOf(data), bearing |-> BearingOf(data),
     mmsi |-> data.mmsi, lat |-> data.lat, lon |-> data.lon,
     timestamp |-> data.timestamp, raw |-> data]

(* C12.  Reading a record whose distance exceeds 100 nm leaves the         *)
(* per-date aggregates, the global distance, bearing and position          *)
(* sequences and the sector counts unchanged and appends the record to the *)
(* debug collection if and only if debug mode is active; reading a record  *)
(* at exactly 100 nm appends it to the global sequences as a sample.       *)
C12_BeyondCeilingIsDropped ==
    [][ Len(lines') = Len(lines) + 1 =>
          LET data == lines'[Len(lines')]
          IN  /\ BeyondCeiling(data) =>
                    /\ UNCHANGED <<stats, allDistances, allBearings, allPositions,
                                   bearingCounts, excludedCount>>
                    /\ debugDistances' =
                          IF debugMode THEN Append(debugDistances, DebugEntryOf(data))
                                       ELSE debugDistances
              /\ (AtCeiling(data) /\ data.hasTimestamp) =>
                    /\ allDistances' = Append(allDistances, 100)
                    /\ allPositions' = Append(allPositions, PositionOf(data))
                    /\ getDate(data.timestamp) \in DOMAIN stats'
                    /\ UNCHANGED debugDistances ]_vars

\* C12 witness: in debug mode a record at 150 nm was kept aside and one at
\* exactly 100 nm became a sample
C12_Witness ==
    /\ debugMode
    /\ Len(debugDistances) = 1
    /\ debugDistances[1].distance = 150
    /\ allDistances = <<100>>
    /\ \E i \in DOMAIN lines : BeyondCeiling(lines[i])

-----------------------------------------------------------------------------
\* handling the line raises an error: JSON.parse rejects it, or the record
\* is accepted and carries no timestamp to take the date from
RaisesError(data) ==
    \/ ~data.parses
    \/ PassesEveryFilter(data) /\ ~data.hasTimestamp

\* the file read so far without the lines whose handling raises an error
WithoutBadLines ==
    LET Good(data) == ~RaisesError(data) IN SelectSeq(lines, Good)

(* C13.  A line whose handling raises an error is reported and skipped:    *)
(* the aggregates, sequences, sector counts, debug collection and excluded *)
(* counter are those of the same file with every such line removed, and    *)
(* one error is reported per such line.                                    *)
C13_BadLinesAreSkipped ==
    \E clean \in { FoldLines(WithoutBadLines, Len(WithoutBadLines),
                             debugMode, excludeMMSIs) } :
        LET IsError(entry) == entry.msg = "error parsing line"
            IsOther(entry) == entry.msg \notin {"error parsing line", "excluded"}
        IN  /\ stats = clean.stats
            /\ allDistances = clean.allDistances
            /\ allBearings = clean.allBearings
            /\ allPositions = clean.allPositions
            /\ bearingCounts = clean.bearingCounts
            /\ debugDistances = clean.debugDistances
            /\ excludedCount = clean.excludedCount
            /\ SelectSeq(console, IsOther) = clean.console
            /\ Len(SelectSeq(console, IsError)) = Len(lines) - Len(WithoutBadLines)

\* C13 witness: a line that does not parse, then a sample, then a record
\* without timestamp
C13_Witness ==
    /\ Len(lines) = 3
    /\ ~lines[1].parses
    /\ PassesEveryFilter(lines[2]) /\ lines[2].hasTimestamp
    /\ PassesEveryFilter(lines[3]) /\ ~lines[3].hasTimestamp
    /\ Len(allPositions) = 1
    /\ Len(console) = 2

-----------------------------------------------------------------------------
(* C19.  The top-5%-by-distance subset of N >= 1 filtered samples has      *)
(* exactly max(1, ceil(0.05 * N)) elements.                                *)
C19_TopCountIsCeiling ==
    (pc = "done" /\ beamStats # Undefined) =>
        LET n == Len(filteredBearings)
        IN  /\ beamStats[1].maxDistance.count = Max(1, (n + 19) \div 20)
            /\ Len(beamStats[1].maxDistance.bearings) = Max(1, (n + 19) \div 20)

-----------------------------------------------------------------------------
(* What the files of a directory say, stated without the accumulators *)

\* processFile on the first n lines of a file, from empty accumulators
FilePrefix(file, n) == FoldLines(file.lines, n, debugMode, excludeMMSIs)

\* the files merged so far as their streams delivered them, and in full
AsDelivered == [i \in DOMAIN processed |-> FilePrefix(processed[i], Delivered(processed[i]))]

InFull == [i \in DOMAIN processed |-> FilePrefix(processed[i], Len(processed[i].lines))]

RECURSIVE ConcatAll(_)
ConcatAll(ss) == IF ss = << >> THEN << >> ELSE Head(ss) \o ConcatAll(Tail(ss))

\* a count of a date in the stats of one file, 0 when the file has no such date
CountIn(fileStats, date, field) ==
    IF date \in DOMAIN fileStats THEN fileStats[date][field] ELSE 0

RECURSIVE MergeAll(_, _)
\* the stats of the first n of the given per-file results, merged in that order
MergeAll(results, n) ==
    IF n = 0 THEN << >> ELSE Merge(MergeAll(results, n - 1), results[n].stats)

\* the bijections of 1..n onto itself
Orders(n) == { q \in [1..n -> 1..n] : \A i, j \in 1..n : q[i] = q[j] => i = j }

\* the per-date counts of merged stats
Counts(merged) ==
    [d \in DOMAIN merged |-> <<merged[d].dayCount, merged[d].nightCount,
                               merged[d].totalCount>>]

-----------------------------------------------------------------------------
(* C14.  The results the run exposes never contain a partial contribution  *)
(* of a file whose reading failed part-way: for every file merged into the *)
(* results of a finished traversal, either all of its samples are in the   *)
(* global sequences and per-date aggregates or none of them is.            *)
C14_FileContributionIsAllOrNothing ==
    pc = "read" =>
        \A i \in DOMAIN processed :
            \/ /\ AsDelivered[i].allDistances = InFull[i].allDistances
               /\ AsDelivered[i].stats = InFull[i].stats
            \/ /\ AsDelivered[i].allDistances = << >>
               /\ AsDelivered[i].stats = << >>

-----------------------------------------------------------------------------
(* C15.  A failure of the xz subprocess of a '.xz' input (it cannot be     *)
(* started, or it ends with an error before the stream is complete) ends   *)
(* the run as a failure; the file is never merged as if it had simply      *)
(* ended, with the run going on to its report.                             *)
C15_XzFailurePropagates ==
    \A i \in DOMAIN processed : processed[i].fault \notin {"spawn", "xz"}

-----------------------------------------------------------------------------
(* C20.  When a directory is processed, the per-date dayCount, nightCount  *)
(* and totalCount of the merged result are the sums of the counts of the   *)
(* files processed, they are the same for every order of processing those  *)
(* files, and the global distance, bearing and position sequences are the  *)
(* concatenation of the sequences of the files in processing order.        *)
C20_MergeSumsAndConcatenates ==
    \E per \in { AsDelivered } :
        LET n == Len(per)
            partial == IF current # Undefined THEN FilePrefix(current[1], Len(lines))
                                              ELSE EmptyAcc
        IN  /\ DOMAIN allStats = UNION { DOMAIN per[i].stats : i \in 1..n }
            /\ \A d \in DOMAIN allStats :
                  \A field \in {"dayCount", "nightCount", "totalCount"} :
                      allStats[d][field] =
                          SumOver(1..n, [i \in 1..n |-> CountIn(per[i].stats, d, field)])
            /\ \A q \in Orders(n) :
                  Counts(MergeAll([i \in 1..n |-> per[q[i]]], n)) = Counts(allStats)
            /\ allDistances =
                  ConcatAll([i \in 1..n |-> per[i].allDistances]) \o partial.allDistances
            /\ allBearings =
                  ConcatAll([i \in 1..n |-> per[i].allBearings]) \o partial.allBearings
            /\ allPositions =
                  ConcatAll([i \in 1..n |-> per[i].allPositions]) \o partial.allPositions
            /\ pc = "read" => stats = allStats

\* C20 witness: three files merged, a date of the first also in the others
C20_Witness ==
    /\ pc = "read"
    /\ Len(processed) = 3
    /\ \E d \in DOMAIN allStats :
          /\ \A i \in 1..3 : d \in DOMAIN AsDelivered[i].stats
          /\ allStats[d].totalCount >= 4
          /\ allStats[d].nightCount >= 2
    /\ Len(allDistances) = 5

-----------------------------------------------------------------------------
\* the first argument that is not --debug, --display.., --min-distance..,
\* --exclude.. or --apikey.., as the program takes the input path
InputPathGiven ==
    { i \in DOMAIN args :
        args[i].name \notin {"--debug", "--display", "--min-distance", "--exclude",
                             "--apikey"} }

\* display is asked for (with a port the program takes as one) and no
\* non-empty credential comes with it
DisplayWithoutCredential ==
    /\ \E i \in DOMAIN args :
          /\ args[i].name = "--display"
          /\ \A j \in 1..(i - 1) : args[j].name # "--display"
          /\ args[i].eq => args[i].num # 0
    /\ \A i \in DOMAIN args :
          (/\ args[i].name = "--apikey"
           /\ args[i].eq
           /\ \A j \in 1..(i - 1) : ~(args[j].name = "--apikey" /\ args[j].eq))
              => args[i].text = ""

(* C16.  When the input path is missing or does not exist (and the run is  *)
(* not ended by the credential check), the run prints the usage text and   *)
(* ends with a non-zero exit status without reading anything.              *)
C16_BadPathPrintsUsage ==
    LET given == InputPathGiven
        first == CHOOSE i \in given : \A j \in given : i <= j
        bad == given = {} \/ PathKind(args[first]) = "none"
    IN  (bad /\ ~DisplayWithoutCredential) =>
            /\ pc \notin {"reading", "directory"}
            /\ pc = "exited" =>
                  /\ exitCode # Undefined /\ exitCode[1] # 0
                  /\ \E i \in DOMAIN console : console[i].msg = "usage"

-----------------------------------------------------------------------------
-----------------------------------------------------------------------------
(* C18 *)

\* 2^-30, far above any rounding residue and far below any real concentration
Negligible == [sign |-> 1, man |-> <<1>>, exp |-> -30]

\* C18: the concentration of the circular statistics is always within
\* [0, 1]; bearings [0,0,0,0] give concentration exactly 1 and meanBearing 0;
\* bearings [0,90,180,270] give a concentration that is 0 up to rounding
C18_ConcentrationInUnitInterval ==
    (pc = "done" /\ beamStats # Undefined /\ "concentration" \in DOMAIN beamStats[1]) =>
        LET c == beamStats[1].concentration
        IN  /\ c.sign >= 0
            /\ ~FLess(One, c)
            /\ filteredBearings = FourNorth =>
                    c = One /\ beamStats[1].meanBearing = Some(Zero)
            /\ filteredBearings = FourQuarters => FLess(c, Negligible)

-----------------------------------------------------------------------------
(* The order of a traversal *)

RECURSIVE DepthFirst(_)
\* the files with a matching name below the given entries, depth-first
DepthFirst(entries) ==
    IF entries = << >> THEN << >>
    ELSE IF Head(entries).type = "dir"
        THEN DepthFirst(Head(entries).children) \o DepthFirst(Tail(entries))
    ELSE IF Matches(Head(entries))
        THEN <<Head(entries)>> \o DepthFirst(Tail(entries))
    ELSE DepthFirst(Tail(entries))

\* the files merged, the file being read, and the files still to come
Traversal == processed \o current \o DepthFirst(todo)

Names(files) == [i \in DOMAIN files |-> files[i].name]

\* the files opened so far, from the record of the file-system calls
Opened ==
    LET IsOpen(call) == call.op \in {"open", "spawn xz"}
    IN  [i \in DOMAIN SelectSeq(fsLog, IsOpen) |-> SelectSeq(fsLog, IsOpen)[i].path]

\* the samples of the files merged so far, file after file
Blocks == ConcatAll([i \in DOMAIN processed |-> AsDelivered[i].allPositions])

\* C21: a directory traversal processes each file whose name ends in
\* '.json' or '.json.xz' exactly once, depth-first and one at a time: a file
\* is opened only when the file before it has been read to the end of its
\* stream and merged, the samples of one file are one contiguous block of the
\* global sequences, and a sample is only ever added at the end, by the file
\* being read
C21_SequentialDepthFirst ==
    [][ /\ Traversal' = Traversal
        /\ Opened' = Names(processed' \o current')
        /\ \A i, j \in DOMAIN Opened' : Opened'[i] = Opened'[j] => i = j
        /\ current' # current /\ current' # Undefined =>
                /\ current = Undefined
                /\ pc = "directory"
                /\ Opened = Names(processed)
                /\ allPositions = Blocks
                /\ processed' = processed
        /\ processed' # processed =>
                /\ processed' = processed \o current
                /\ Len(lines) = Delivered(current[1])
                /\ allPositions' = Blocks'
                /\ allStats' = Merge(allStats, FilePrefix(current[1], Len(lines)).stats)
        /\ allPositions' # allPositions =>
                /\ current # Undefined /\ current' = current
                /\ allPositions = Blocks \o FilePrefix(current[1], Len(lines)).allPositions
                /\ allPositions' = Blocks \o FilePrefix(current[1], Len(lines')).allPositions
                /\ allDistances' = [i \in DOMAIN allPositions' |-> allPositions'[i].distance]
                /\ allBearings' = [i \in DOMAIN allPositions' |-> allPositions'[i].bearing]
        /\ pc' = "read" => todo' = << >> /\ current' = Undefined
      ]_vars

\* C21 witness: the two files of a sub-directory have been read before the
\* file listed after it, and the five samples are in three blocks
C21_Witness ==
    /\ pc = "read"
    /\ Names(processed) = <<"d.json", "e.json.xz", "a.json">>
    /\ allPositions = Blocks
    /\ Len(AsDelivered[1].allPositions) = 1
    /\ Len(AsDelivered[2].allPositions) = 2
    /\ Len(allPositions) = 5

-----------------------------------------------------------------------------
\* every date of old is a date of new, with counts and maximum at least as large
Grows(old, new) ==
    /\ DOMAIN old \subseteq DOMAIN new
    /\ \A d \in DOMAIN old :
          \A field \in {"dayCount", "nightCount", "totalCount", "maxDistance"} :
              old[d][field] <= new[d][field]

\* C22: the per-date aggregates never shrink.  On every step of a run (a
\* record folded into the aggregates of the file being read, the aggregates of
\* a file merged into those of the directory, the result handed to main) no
\* date is removed and no dayCount, nightCount, totalCount or maxDistance
\* decreases; only a new call of processFile starts from new, empty aggregates
C22_AggregatesNeverShrink ==
    [][ /\ Grows(allStats, allStats')
        /\ (pc = "directory" /\ pc' = "reading") \/ Grows(stats, stats')
        /\ pc' = "read" => stats' = allStats
      ]_vars

\* C22 witness: a date has grown by the records of three files, merged one
\* after the other, and a second date has been added by the last of them
C22_Witness ==
    /\ pc = "directory"
    /\ Names(processed) = <<"c.json", "a.json", "b.json.xz">>
    /\ processed[3].fault = "none"
    /\ DOMAIN allStats = {getDate(Stamp(1, 0, 9)), getDate(Stamp(2, 0, 9))}
    /\ allStats[getDate(Stamp(1, 0, 9))].totalCount = 4
    /\ allStats[getDate(Stamp(1, 0, 9))].maxDistance = 60
    /\ allStats[getDate(Stamp(1, 0, 9))].maxDistanceMMSI = Some(456)

-----------------------------------------------------------------------------
\* a decoded record skipped for its shape: another topic, no payload, or a
\* payload of a vessel that is not excluded without lat or without lon
SkippedForShape(data, excluded) ==
    /\ data.parses
    /\ \/ data.topic # "ais/data"
       \/ ~data.hasPayload
       \/ data.mmsi \notin excluded /\ (~data.hasLat \/ ~data.hasLon)

\* C23: a decoded record that is skipped for its shape leaves every
\* accumulator as it was: the per-date aggregates, the three global sequences,
\* the sector counts, the debug collection and the excluded counter (also
\* when the record has another topic and its mmsi is in the exclusion set);
\* nothing is written to the console either
C23_ShapeSkipChangesNothing ==
    [][ (lines' # lines /\ SkippedForShape(lines'[Len(lines')], excludeMMSIs)) =>
            /\ lines' = Append(lines, lines'[Len(lines')])
            /\ UNCHANGED <<stats, allDistances, allBearings, allPositions,
                           bearingCounts, debugDistances, excludedCount, console>>
      ]_vars

\* C23 witness: after an accepted record and an excluded one, a record of
\* another topic whose mmsi is in the exclusion set has been read
C23_Witness ==
    /\ Len(lines) = 3
    /\ excludeMMSIs = {123}
    /\ lines[1] = Message(456, N5, Stamp(1, 0, 9))
    /\ lines[2] = Message(123, N5, Stamp(1, 0, 9))
    /\ lines[3].topic = "ais/status" /\ lines[3].mmsi = 123
    /\ excludedCount = 1
    /\ Len(allDistances) = 1
    /\ console = << >>

-----------------------------------------------------------------------------
\* the sum of totalCount over the dates of per-date aggregates
TotalOf(st) == SumOver(DOMAIN st, [d \in DOMAIN st |-> st[d].totalCount])

\* the lines read so far of the file being read that made a sample
SamplesOfCurrent ==
    IF current = Undefined THEN << >>
    ELSE FilePrefix(current[1], Len(lines)).allPositions

\* C24: in every state between two records the global distance, bearing and
\* position sequences have the same length, element i of each is the
\* distance, the bearing and the position of one record, and that length is
\* the sum of the sector counts; it is also the sum of totalCount over the
\* dates: of the merged aggregates plus those of the file being read while a
\* directory is traversed, of the returned aggregates at the end of the run
C24_SequencesStayAligned ==
    LET n == Len(allPositions)
    IN  /\ Len(allDistances) = n
        /\ Len(allBearings) = n
        /\ \A i \in 1..n :
              /\ allDistances[i] = allPositions[i].distance
              /\ allBearings[i] = allPositions[i].bearing
              /\ allDistances[i] = calculateDistance(MY_LAT, MY_LON, allPositions[i].lat,
                                                     allPositions[i].lon)
              /\ allBearings[i] = calculateBearing(MY_LAT, MY_LON, allPositions[i].lat,
                                                   allPositions[i].lon)
        /\ SumOver(DOMAIN bearingCounts, bearingCounts) = n
        /\ current # Undefined => TotalOf(allStats) + TotalOf(stats) = n
        /\ current = Undefined => TotalOf(allStats) = n
        /\ pc = "read" => TotalOf(stats) = n

\* C24 witness: a directory run has ended; one of its files had lines that
\* were dropped between its samples, another was cut short
C24_Witness ==
    /\ pc = "read"
    /\ Names(processed) = <<"b.json.xz", "m.json", "a.json">>
    /\ processed[1].fault = "xz"
    /\ Len(allPositions) = 4
    /\ TotalOf(stats) = 4
    /\ Cardinality(DOMAIN bearingCounts) = 4

-----------------------------------------------------------------------------
\* C25: computing the histogram does not change the sequence it is given.
\* Once calculateDistribution has returned, element i of the filtered distance
\* sequence is still the distance of the sample whose bearing and position
\* are element i of the filtered bearing and position sequences, and with no
\* filter active the same holds for the global distance sequence
C25_HistogramLeavesArgument ==
    pc \in {"distributed", "sectors", "done"} =>
        /\ filteredDistances =
              [i \in DOMAIN filteredPositions |-> filteredPositions[i].distance]
        /\ filteredBearings =
              [i \in DOMAIN filteredPositions |-> filteredPositions[i].bearing]
        /\ Aliased =>
              allDistances = [i \in DOMAIN allPositions |-> allPositions[i].distance]

-----------------------------------------------------------------------------
\* the span the algorithm selects for a window: the raw span when it is at
\* most 180 degrees, else the least span of the window over the rotations
\* (the raw span, which is that of rotation 0, included)
SelectedSpan(sorted, s, e) ==
    LET raw == sorted[e + 1] - sorted[s + 1]
        w == RotatedWindows(sorted, s, e)
        spans == { w[k][2] - w[k][1] : k \in 0..35 }
    IN  IF raw > Deg(180) THEN CHOOSE x \in spans : \A y \in spans : x <= y
        ELSE raw

\* C26: for every percentile window the reported beamWidth is the span the
\* algorithm selected (the raw span on the direct path, the minimal rotated
\* span after the wraparound search) and never exceeds the raw span of the
\* window; a window whose minBearing and maxBearing coincide reports 0
C26_BeamWidthIsSelectedSpan ==
    (pc = "done" /\ beamStats # Undefined) =>
        \A p \in {68, 95, 99} :
            \E sorted \in { SortAsc(filteredBearings) } :
                LET s == startIdx(p, Len(sorted))
                    e == endIdx(p, Len(sorted))
                    r == PercentileResults[p]
                IN  /\ r.beamWidth = SelectedSpan(sorted, s, e)
                    /\ r.beamWidth <= sorted[e + 1] - sorted[s + 1]
                    /\ r.minBearing = r.maxBearing => r.beamWidth = 0

-----------------------------------------------------------------------------
\* the lines read so far in a directory run, in traversal order: those the
\* streams of the merged files delivered, then those of the file being read
LinesInOrder ==
    ConcatAll([i \in DOMAIN processed |->
                  SubSeq(processed[i].lines, 1, Delivered(processed[i]))])
        \o (IF current # Undefined THEN lines ELSE << >>)

\* processFile on one file made of those lines
AsOneFile == FoldLines(LinesInOrder, Len(LinesInOrder), debugMode, excludeMMSIs)

\* C27: processing a directory yields the same per-date aggregates (counts,
\* maxDistance and the mmsi recorded with it), global sequences and sector
\* counts as processing one file that is the concatenation, in traversal
\* order, of the lines read from its files; while a file is being read this
\* holds of the merged aggregates merged with those of that file
C27_DirectoryIsConcatenation ==
    /\ allDistances = AsOneFile.allDistances
    /\ allBearings = AsOneFile.allBearings
    /\ allPositions = AsOneFile.allPositions
    /\ bearingCounts = AsOneFile.bearingCounts
    /\ current = Undefined => allStats = AsOneFile.stats
    /\ current # Undefined => Merge(allStats, stats) = AsOneFile.stats
    /\ pc = "read" => stats = AsOneFile.stats

\* C27 witness: three files read, two of them with the same largest distance
\* on the same date from different vessels, the third with dropped lines
C27_Witness ==
    /\ pc = "read"
    /\ Names(processed) = <<"c.json", "a.json", "m.json">>
    /\ Len(LinesInOrder) = 8
    /\ Len(allPositions) = 4
    /\ stats[getDate(Stamp(1, 0, 9))].maxDistance = 60
    /\ stats[getDate(Stamp(1, 0, 9))].maxDistanceMMSI = Some(456)
    /\ AsDelivered[2].stats[getDate(Stamp(1, 0, 9))].maxDistanceMMSI = Some(789)

-----------------------------------------------------------------------------
\* C28: the sector counts that are reported describe the samples of the
\* filtered view, those the histogram and the beam-width statistics are
\* computed from: for every minDistance and maxDistance the sum of the
\* reported sector counts is the number of samples in the filtered view
C28_SectorsDescribeFilteredView ==
    pc \in {"sectors", "done"} =>
        SumOver(DOMAIN bearingCounts, bearingCounts) = Len(filteredPositions)

-----------------------------------------------------------------------------
\* C29: for every number N >= 1 of bearings and every percentile the window
\* indices satisfy 0 <= startIdx <= endIdx <= N - 1, so the two window values
\* exist in the sorted sequence and in each of its 36 rotations, and the
\* reported minBearing and maxBearing are bearings in [0, 360)
C29_WindowIndicesInRange ==
    \A p \in {68, 95, 99} :
        LET n == Len(filteredBearings)
            s == startIdx(p, n)
            e == endIdx(p, n)
        IN  n >= 1 =>
              /\ 0 <= s /\ s <= e /\ e <= n - 1
              /\ {s + 1, e + 1} \subseteq DOMAIN SortAsc(filteredBearings)
              /\ \A offset \in { Deg(10) * k : k \in 0..35 } :
                    {s + 1, e + 1} \subseteq DOMAIN Rotated(SortAsc(filteredBearings), offset)
              /\ (pc = "done" /\ beamStats # Undefined) =>
                    /\ PercentileResults[p].minBearing \in 0..(Deg(360) - 1)
                    /\ PercentileResults[p].maxBearing \in 0..(Deg(360) - 1)

\* C29 witness: 40 bearings around the circle analysed; the 95% window is
\* the indices 1 to 38 and its raw span exceeds 180 degrees
C29_Witness ==
    /\ pc = "done"
    /\ filteredBearings = Around(40)
    /\ startIdx(95, 40) = 1
    /\ endIdx(95, 40) = 38
    /\ Wraps(filteredBearings[2], filteredBearings[39])
    /\ beamStats[1].percentile95.minBearing \in 0..(Deg(360) - 1)

-----------------------------------------------------------------------------
\* the names of the recognized options
OptionNames == {"--debug", "--display", "--apikey", "--min-distance",
                "--max-distance", "--exclude"}

\* the places of the arguments that are not recognized options
Positional == { i \in DOMAIN args : args[i].name \notin OptionNames }

\* C30: the input path is the first argument that is not a recognized
\* option, wherever the options stand in the argument list: every path the
\* run looks up is that argument, and a run whose arguments are all options
\* prints the usage text and ends with a non-zero status
C30_PathIsFirstNonOption ==
    /\ \A k \in DOMAIN fsLog :
          fsLog[k].op = "stat" =>
              /\ Positional # {}
              /\ fsLog[k].path = args[CHOOSE i \in Positional :
                                        \A j \in Positional : i <= j].name
    /\ (Positional = {} /\ pc \notin {"start", "parsed"}) =>
          /\ pc = "exited"
          /\ exitCode # Undefined /\ exitCode[1] # 0
          /\ \E i \in DOMAIN console : console[i].msg = "usage"

=============================================================================
